---- MODULE Spec2Model ----
(***************************************************************************)
(* A model of guilty (src/main.go): the repository store under             *)
(* GitRepositoryHome, the HTTP handlers that create, quarantine, resolve   *)
(* and list repositories, the path handling of the directory handler, the  *)
(* group catalogue and the tree listing.                                   *)
(*                                                                         *)
(* Strings are sequences of byte values (ASCII codes), so that percent     *)
(* decoding, prefix tests, suffix handling and case folding are computed   *)
(* the way the Go code computes them.  Indices follow Go: they are         *)
(* 0-based, and -1 means "not found".                                      *)
(***************************************************************************)
EXTENDS Integers, Sequences, FiniteSets, TLC

(***************************************************************************)
(* Byte strings                                                            *)
(***************************************************************************)

\* "/" : the separator the handlers look for and filepath.Join inserts
Slash == 47
\* "%" : the escape character of url.PathUnescape
Percent == 37
\* "." : path components "." and "..", and the suffixes ".git", ".deleted"
Dot == 46
\* " " : the separator strings.Join puts between the fields of a name
Space == 32

\* Literals of the source, spelled as bytes.
Str_git == <<103, 105, 116>>
Str_dotgit == <<46, 103, 105, 116>>
Str_dotdeleted == <<46, 100, 101, 108, 101, 116, 101, 100>>
Str_dotdot == <<46, 46>>
Str_dot == <<46>>
Str_HEAD == <<72, 69, 65, 68>>
Str_shellcommands ==
  <<103, 105, 116, 45, 115, 104, 101, 108, 108, 45, 99, 111, 109, 109, 97, 110, 100, 115>>

\* const GitRepositoryHome = "/home/git"
GitRepositoryHome == <<47, 104, 111, 109, 101, 47, 103, 105, 116>>

\* Go's s[i:j] and s[i:]
Slice(s, i, j) == SubSeq(s, i + 1, j)

SliceFrom(s, i) == SubSeq(s, i + 1, Len(s))

\* the scan of strings.Index from (0-based) position i
RECURSIVE IndexFrom(_, _, _)
IndexFrom(s, c, i) ==
  IF i >= Len(s) THEN -1
  ELSE IF s[i + 1] = c THEN i
  ELSE IndexFrom(s, c, i + 1)

\* strings.Index(s, "/") for a one-byte needle
Index(s, c) == IndexFrom(s, c, 0)

\* the scan of strings.LastIndex down from (0-based) position i
RECURSIVE LastIndexFrom(_, _, _)
LastIndexFrom(s, c, i) ==
  IF i < 0 THEN -1
  ELSE IF s[i + 1] = c THEN i
  ELSE LastIndexFrom(s, c, i - 1)

\* strings.LastIndex(s, "/") for a one-byte needle
LastIndex(s, c) == LastIndexFrom(s, c, Len(s) - 1)

\* strings.HasPrefix
HasPrefix(s, p) == Len(p) <= Len(s) /\ SubSeq(s, 1, Len(p)) = p

\* strings.HasSuffix
HasSuffix(s, p) == Len(p) <= Len(s) /\ SubSeq(s, Len(s) - Len(p) + 1, Len(s)) = p

\* strings.TrimSuffix
TrimSuffix(s, p) == IF HasSuffix(s, p) THEN SubSeq(s, 1, Len(s) - Len(p)) ELSE s

\* unicode.ToLower on one ASCII byte
LowerByte(c) == IF c >= 65 /\ c <= 90 THEN c + 32 ELSE c

\* strings.ToLower
ToLower(s) == [i \in 1..Len(s) |-> LowerByte(s[i])]

\* Go's < on strings: bytewise lexicographic order
RECURSIVE StrLess(_, _)
StrLess(a, b) ==
  IF b = <<>> THEN FALSE
  ELSE IF a = <<>> THEN TRUE
  ELSE IF a[1] # b[1] THEN a[1] < b[1]
  ELSE StrLess(Tail(a), Tail(b))

\* strings.Split(s, "/")-like: the components between occurrences of c
RECURSIVE SplitOn(_, _)
SplitOn(s, c) ==
  LET i == Index(s, c) IN
  IF i < 0 THEN <<s>>
  ELSE <<Slice(s, 0, i)>> \o SplitOn(SliceFrom(s, i + 1), c)

\* strings.Join(parts, sep)
RECURSIVE JoinWith(_, _)
JoinWith(parts, sep) ==
  IF parts = <<>> THEN <<>>
  ELSE IF Len(parts) = 1 THEN parts[1]
  ELSE parts[1] \o sep \o JoinWith(Tail(parts), sep)

(***************************************************************************)
(* Percent encoding: the client's encodeURIComponent, net/http's decoding  *)
(* of the request path into r.URL.Path, and url.PathUnescape               *)
(***************************************************************************)

\* ishex of net/url
IsHex(c) == (c >= 48 /\ c <= 57) \/ (c >= 65 /\ c <= 70) \/ (c >= 97 /\ c <= 102)

\* unhex of net/url
UnHex(c) ==
  IF c >= 48 /\ c <= 57 THEN c - 48
  ELSE IF c >= 97 /\ c <= 102 THEN c - 97 + 10
  ELSE c - 65 + 10

\* the upper-case hex digit encodeURIComponent writes
HexDigit(v) == IF v < 10 THEN 48 + v ELSE 65 + (v - 10)

\* the bytes encodeURIComponent leaves alone: A-Z a-z 0-9 - _ . ! ~ * ' ( )
IsUnreserved(c) ==
  \/ (c >= 65 /\ c <= 90)
  \/ (c >= 97 /\ c <= 122)
  \/ (c >= 48 /\ c <= 57)
  \/ c \in {45, 95, 46, 33, 126, 42, 39, 40, 41}

\* JavaScript's encodeURIComponent on an ASCII string
RECURSIVE encodeURIComponent(_)
encodeURIComponent(s) ==
  IF s = <<>> THEN <<>>
  ELSE (IF IsUnreserved(s[1]) THEN <<s[1]>>
        ELSE <<Percent, HexDigit(s[1] \div 16), HexDigit(s[1] % 16)>>)
       \o encodeURIComponent(Tail(s))

\* first pass of net/url's unescape: every "%" is followed by two hex digits
ValidEscapes(s) ==
  \A i \in 1..Len(s) :
    s[i] = Percent => (i + 2 <= Len(s) /\ IsHex(s[i + 1]) /\ IsHex(s[i + 2]))

\* second pass of net/url's unescape (path mode: "+" is left alone)
RECURSIVE UnescapeBytes(_)
UnescapeBytes(s) ==
  IF s = <<>> THEN <<>>
  ELSE IF s[1] = Percent
       THEN <<UnHex(s[2]) * 16 + UnHex(s[3])>> \o UnescapeBytes(SubSeq(s, 4, Len(s)))
       ELSE <<s[1]>> \o UnescapeBytes(Tail(s))

\* url.PathUnescape: [ok |-> FALSE] is the EscapeError
PathUnescape(s) ==
  IF ValidEscapes(s) THEN [ok |-> TRUE, val |-> UnescapeBytes(s)]
  ELSE [ok |-> FALSE, val |-> <<>>]

(***************************************************************************)
(* path/filepath                                                           *)
(***************************************************************************)

\* the component stack of Clean: "." and "" vanish, ".." pops a component,
\* is dropped at the root, and is kept in front of a relative path
RECURSIVE CleanComponents(_, _, _)
CleanComponents(comps, rooted, acc) ==
  IF comps = <<>> THEN acc
  ELSE LET c == comps[1] IN
       IF c = <<>> \/ c = Str_dot THEN CleanComponents(Tail(comps), rooted, acc)
       ELSE IF c = Str_dotdot
       THEN IF acc # <<>> /\ acc[Len(acc)] # Str_dotdot
            THEN CleanComponents(Tail(comps), rooted, SubSeq(acc, 1, Len(acc) - 1))
            ELSE IF rooted THEN CleanComponents(Tail(comps), rooted, acc)
            ELSE CleanComponents(Tail(comps), rooted, Append(acc, c))
       ELSE CleanComponents(Tail(comps), rooted, Append(acc, c))

\* filepath.Clean (path.Clean on Unix)
Clean(p) ==
  IF p = <<>> THEN Str_dot
  ELSE LET rooted == p[1] = Slash
           body == JoinWith(CleanComponents(SplitOn(p, Slash), rooted, <<>>), <<Slash>>)
       IN IF rooted THEN <<Slash>> \o body
          ELSE IF body = <<>> THEN Str_dot ELSE body

\* the non-empty elements of a Join
RECURSIVE NonEmpty(_)
NonEmpty(elems) ==
  IF elems = <<>> THEN <<>>
  ELSE (IF elems[1] = <<>> THEN <<>> ELSE <<elems[1]>>) \o NonEmpty(Tail(elems))

\* filepath.Join: empty elements are ignored, the result is cleaned
Join(elems) ==
  IF NonEmpty(elems) = <<>> THEN <<>>
  ELSE Clean(JoinWith(NonEmpty(elems), <<Slash>>))

\* filepath.Abs of a path that is already absolute (every path below starts
\* with GitRepositoryHome)
Abs(p) == Clean(p)

\* filepath.Base of a clean path
Base(p) == LET i == LastIndex(p, Slash) IN IF i < 0 THEN p ELSE SliceFrom(p, i + 1)

\* filepath.Dir of a clean absolute path
Dir(p) == LET i == LastIndex(p, Slash) IN IF i <= 0 THEN <<Slash>> ELSE Slice(p, 0, i)

(***************************************************************************)
(* The filesystem under GitRepositoryHome                                  *)
(*                                                                         *)
(* fs maps each existing path (clean, absolute) to a node:                 *)
(*   kind  "dir", "file", or a symbolic link: "linkdir" (to a directory),  *)
(*         "linkfile" (to a file), "linkbroken" (to nothing)               *)
(*   id    the identity of the directory's content (0: not a repository    *)
(*         directory), so that a rename is told from a fresh creation      *)
(*   mode  its permission bits, as os.Stat reports them                    *)
(*   head  whether it holds the HEAD file written by git init --bare       *)
(*   commit  <<>> when the repository has no commits, else <<c>> with c    *)
(*         the head commit: its author, date (epoch seconds) and subject   *)
(*   tree  the head commit's directories: each directory path (<<>> is the *)
(*         root) mapped to its records, in the order git ls-tree prints    *)
(***************************************************************************)
VARIABLES
  fs,       \* the directories on disk
  nextId,   \* the identity the next created directory gets
  last,     \* the latest write to the store: the response to a create or
            \* delete request, or the note of a push
  prev,     \* the response to the one before it
  view,     \* the response to the latest read request since then
  wire      \* a browse request on its way from the client to the handler

\* 0755: the mode MkdirAll is given, and the mode a prior quarantine is
\* restored to before its removal
Mode755 == 493
\* 0000: the mode of a quarantined repository
Mode000 == 0
\* 0444: the read bits getGitRepositories and getGroupList test
Mode444 == 292

\* Go's & on non-negative integers
RECURSIVE BitAnd(_, _)
BitAnd(a, b) ==
  IF a = 0 \/ b = 0 THEN 0
  ELSE (a % 2) * (b % 2) + 2 * BitAnd(a \div 2, b \div 2)

\* a commit-less tree
NoTree == <<>>

\* a directory that is no repository (MkdirAll's result, a group directory)
PlainDir(id, mode) ==
  [kind |-> "dir", id |-> id, mode |-> mode, head |-> FALSE, commit |-> <<>>,
   tree |-> NoTree]

\* os.Stat(path) succeeds
Exists(f, p) == p \in DOMAIN f

\* p is root or lies below it
Under(p, root) == p = root \/ HasPrefix(p, root \o <<Slash>>)

\* os.Chmod
Chmod(f, p, mode) == [f EXCEPT ![p].mode = mode]

\* os.RemoveAll: the directory and everything below it
RemoveAll(f, p) == [q \in {x \in DOMAIN f : ~Under(x, p)} |-> f[q]]

\* a copy in place of the move: the directory also stays where it was
RenameAsCopy(f, old, new) ==
  LET moved == {x \in DOMAIN f : Under(x, old)}
      kept == DOMAIN f \ {new}
  IN [q \in kept \cup {new \o SliceFrom(x, Len(old)) : x \in moved} |->
        IF q \in kept THEN f[q] ELSE f[old \o SliceFrom(q, Len(new))]]

\* os.Rename of a directory onto a path where nothing exists: the directory
\* and everything below it move
Rename(f, old, new) ==
  LET moved == {x \in DOMAIN f : Under(x, old)}
      kept == (DOMAIN f \ moved) \ {new}
  IN [q \in kept \cup {new \o SliceFrom(x, Len(old)) : x \in moved} |->
        IF q \in kept THEN f[q] ELSE f[old \o SliceFrom(q, Len(new))]]

\* whether os.Rename(old, new) can succeed: the source exists and the target
\* is absent or an empty directory
CanRename(f, old, new) ==
  /\ Exists(f, old)
  /\ Exists(f, new) =>
       (~f[new].head /\ \A x \in DOMAIN f : Under(x, new) => x = new)

\* the missing ancestors of p, p included
RECURSIVE MissingDirs(_, _)
MissingDirs(f, p) ==
  IF Exists(f, p) \/ p = <<Slash>> \/ p = <<>> THEN {}
  ELSE {p} \cup MissingDirs(f, Dir(p))

\* os.MkdirAll(p, 0755): every missing directory on the way is created; the
\* last one gets the identity id
MkdirAll(f, p, id) ==
  LET new == MissingDirs(f, p)
  IN [q \in DOMAIN f \cup new |->
        IF q \in DOMAIN f THEN f[q]
        ELSE PlainDir(IF q = p THEN id ELSE 0, Mode755)]

\* git init --bare on an existing directory: HEAD and the rest are written;
\* an existing repository is left as it is
GitInitBare(f, p) == [f EXCEPT ![p].head = TRUE]

(***************************************************************************)
(* RepositoryLifecycle: src/main.go                                        *)
(***************************************************************************)

\* the regular expression ^[a-zA-Z0-9_-]+$
MatchesNamePattern(s) ==
  /\ s # <<>>
  /\ \A i \in 1..Len(s) :
       \/ (s[i] >= 97 /\ s[i] <= 122)
       \/ (s[i] >= 65 /\ s[i] <= 90)
       \/ (s[i] >= 48 /\ s[i] <= 57)
       \/ s[i] = 95
       \/ s[i] = 45

splitRepositoryName(path) ==
  LET i == LastIndex(path, Slash)
  IN IF i # -1 THEN [group |-> Slice(path, 0, i), name |-> SliceFrom(path, i + 1)]
     ELSE [group |-> Str_git, name |-> path]

\* filepath.Join(filepath.Join(GitRepositoryHome, group), name+".git")
RepoPath(group, name) ==
  Join(<<Join(<<GitRepositoryHome, group>>), name \o Str_dotgit>>)

\* a validation without the check of the name's characters
validateRepositoryNameAnyCharacters(f, name, group) ==
  IF name = <<>> THEN "empty"
  ELSE LET g == IF group = <<>> THEN Str_git ELSE group
       IN IF Exists(f, RepoPath(g, name)) THEN "exists" ELSE ""

\* a validation that also takes a quarantined repository of that name for
\* an existing one
validateRepositoryNameSeeingQuarantine(f, name, group) ==
  IF name = <<>> THEN "empty"
  ELSE IF ~MatchesNamePattern(name) THEN "pattern"
  ELSE LET g == IF group = <<>> THEN Str_git ELSE group
       IN IF Exists(f, RepoPath(g, name))
             \/ Exists(f, RepoPath(g, name) \o Str_dotdeleted)
          THEN "exists" ELSE ""

\* "" is the nil error
validateRepositoryName(f, name, group) ==
  IF name = <<>> THEN "empty"
  ELSE IF ~MatchesNamePattern(name) THEN "pattern"
  ELSE LET g == IF group = <<>> THEN Str_git ELSE group
       IN IF Exists(f, RepoPath(g, name)) THEN "exists" ELSE ""

\* a creation that leaves the directory where it is when git init fails
createRepositoryNoCleanup(f, name, group, id, io) ==
  LET sp == IF group = <<>> THEN splitRepositoryName(name)
            ELSE [group |-> group, name |-> name]
      repoPath == RepoPath(sp.group, sp.name)
  IN IF ~io.mkdir THEN [err |-> "mkdir", fs |-> f, path |-> repoPath]
     ELSE LET f1 == MkdirAll(f, repoPath, id)
          IN IF ~io.init THEN [err |-> "init", fs |-> f1, path |-> repoPath]
             ELSE [err |-> "", fs |-> GitInitBare(f1, repoPath), path |-> repoPath]

\* a creation that brings a quarantined repository of that name back to its
\* active path when there is one
createRepositoryRestoring(f, name, group, id, io) ==
  LET sp == IF group = <<>> THEN splitRepositoryName(name)
            ELSE [group |-> group, name |-> name]
      repoPath == RepoPath(sp.group, sp.name)
      oldPath == repoPath \o Str_dotdeleted
  IN IF Exists(f, oldPath) /\ ~Exists(f, repoPath)
     THEN [err |-> "", fs |-> Chmod(Rename(f, oldPath, repoPath), repoPath, Mode755),
           path |-> repoPath]
     ELSE IF ~io.mkdir THEN [err |-> "mkdir", fs |-> f, path |-> repoPath]
     ELSE LET f1 == MkdirAll(f, repoPath, id)
          IN IF ~io.init
             THEN [err |-> "init",
                   fs |-> IF io.cleanup THEN RemoveAll(f1, repoPath) ELSE f1,
                   path |-> repoPath]
             ELSE [err |-> "", fs |-> GitInitBare(f1, repoPath), path |-> repoPath]

\* io.mkdir, io.init, io.cleanup: whether os.MkdirAll, git init --bare and
\* the os.RemoveAll of the clean-up succeed
createRepository(f, name, group, id, io) ==
  LET sp == IF group = <<>> THEN splitRepositoryName(name)
            ELSE [group |-> group, name |-> name]
      repoPath == RepoPath(sp.group, sp.name)
  IN IF ~io.mkdir THEN [err |-> "mkdir", fs |-> f, path |-> repoPath]
     ELSE LET f1 == MkdirAll(f, repoPath, id)
          IN IF ~io.init
             THEN [err |-> "init",
                   fs |-> IF io.cleanup THEN RemoveAll(f1, repoPath) ELSE f1,
                   path |-> repoPath]
             ELSE [err |-> "", fs |-> GitInitBare(f1, repoPath), path |-> repoPath]

\* a deletion that unlinks the repository instead of moving it
deleteRepositoryUnlinking(f, name, io) ==
  LET sp == splitRepositoryName(name)
      repoPath == RepoPath(sp.group, sp.name)
  IN IF ~Exists(f, repoPath)
     THEN [err |-> "notexist", fs |-> f, path |-> repoPath, revoked |-> FALSE]
     ELSE IF ~io.remove
     THEN [err |-> "remove", fs |-> f, path |-> repoPath, revoked |-> FALSE]
     ELSE [err |-> "", fs |-> RemoveAll(f, repoPath), path |-> repoPath,
           revoked |-> FALSE]

\* a deletion that leaves an older quarantine where it is
deleteRepositoryKeepingOld(f, name, io) ==
  LET sp == splitRepositoryName(name)
      repoPath == RepoPath(sp.group, sp.name)
      newPath == repoPath \o Str_dotdeleted
      f3 == Rename(f, repoPath, newPath)
  IN IF ~Exists(f, repoPath)
     THEN [err |-> "notexist", fs |-> f, path |-> repoPath, revoked |-> FALSE]
     ELSE IF ~(io.rename /\ CanRename(f, repoPath, newPath))
     THEN [err |-> "rename", fs |-> f, path |-> repoPath, revoked |-> FALSE]
     ELSE [err |-> "",
           fs |-> IF io.revoke THEN Chmod(f3, newPath, Mode000) ELSE f3,
           path |-> repoPath,
           revoked |-> io.revoke]

\* a deletion that fails when the permissions cannot be revoked
deleteRepositoryStrict(f, name, io) ==
  LET sp == splitRepositoryName(name)
      repoPath == RepoPath(sp.group, sp.name)
      newPath == repoPath \o Str_dotdeleted
      occupied == Exists(f, newPath)
      f1 == IF occupied /\ io.restore THEN Chmod(f, newPath, Mode755) ELSE f
      f2 == IF occupied THEN RemoveAll(f1, newPath) ELSE f1
      f3 == Rename(f2, repoPath, newPath)
  IN IF ~Exists(f, repoPath)
     THEN [err |-> "notexist", fs |-> f, path |-> repoPath, revoked |-> FALSE]
     ELSE IF occupied /\ ~io.remove
     THEN [err |-> "remove", fs |-> f1, path |-> repoPath, revoked |-> FALSE]
     ELSE IF ~(io.rename /\ CanRename(f2, repoPath, newPath))
     THEN [err |-> "rename", fs |-> f2, path |-> repoPath, revoked |-> FALSE]
     ELSE IF ~io.revoke
     THEN [err |-> "revoke", fs |-> f3, path |-> repoPath, revoked |-> FALSE]
     ELSE [err |-> "", fs |-> Chmod(f3, newPath, Mode000), path |-> repoPath,
           revoked |-> TRUE]

\* io.restore, io.remove, io.rename, io.revoke: whether the os.Chmod(0755),
\* the os.RemoveAll, the os.Rename and the os.Chmod(0000) succeed
deleteRepository(f, name, io) ==
  LET sp == splitRepositoryName(name)
      repoPath == RepoPath(sp.group, sp.name)
      newPath == repoPath \o Str_dotdeleted
      occupied == Exists(f, newPath)
      f1 == IF occupied /\ io.restore THEN Chmod(f, newPath, Mode755) ELSE f
      f2 == IF occupied THEN RemoveAll(f1, newPath) ELSE f1
      f3 == Rename(f2, repoPath, newPath)
  IN IF ~Exists(f, repoPath)
     THEN [err |-> "notexist", fs |-> f, path |-> repoPath, revoked |-> FALSE]
     ELSE IF occupied /\ ~io.remove
     THEN [err |-> "remove", fs |-> f1, path |-> repoPath, revoked |-> FALSE]
     ELSE IF ~(io.rename /\ CanRename(f2, repoPath, newPath))
     THEN [err |-> "rename", fs |-> f2, path |-> repoPath, revoked |-> FALSE]
     ELSE [err |-> "",
           fs |-> IF io.revoke THEN Chmod(f3, newPath, Mode000) ELSE f3,
           path |-> repoPath,
           revoked |-> io.revoke]

(***************************************************************************)
(* The git subprocesses, as far as the handlers read their output          *)
(***************************************************************************)

\* "\n", "\t", "|"
Newline == 10
Tab == 9
Bar == 124

\* git finds a repository at --git-dir=p
GitOpens(f, p) == Exists(f, p) /\ f[p].head

\* strconv.Itoa / the decimal digits %at prints
RECURSIVE Itoa(_)
Itoa(n) == IF n < 10 THEN <<48 + n>> ELSE Itoa(n \div 10) \o <<48 + (n % 10)>>

\* strconv.ParseInt(s, 10, 64) on an unsigned decimal: -1 is the error
RECURSIVE ParseDigits(_, _)
ParseDigits(s, acc) ==
  IF s = <<>> THEN acc
  ELSE IF s[1] >= 48 /\ s[1] <= 57 THEN ParseDigits(Tail(s), acc * 10 + (s[1] - 48))
  ELSE -1

ParseInt(s) == IF s = <<>> THEN -1 ELSE ParseDigits(s, 0)

\* unicode.IsSpace on an ASCII byte
IsSpace(c) == c \in {9, 10, 11, 12, 13, 32}

\* strings.TrimSpace
RECURSIVE TrimLeft(_)
TrimLeft(s) == IF s # <<>> /\ IsSpace(s[1]) THEN TrimLeft(Tail(s)) ELSE s

RECURSIVE TrimRight(_)
TrimRight(s) ==
  IF s # <<>> /\ IsSpace(s[Len(s)]) THEN TrimRight(SubSeq(s, 1, Len(s) - 1)) ELSE s

TrimSpace(s) == TrimRight(TrimLeft(s))

\* strings.Fields: the maximal runs of non-space bytes
RECURSIVE FieldsFrom(_, _, _)
FieldsFrom(s, cur, acc) ==
  IF s = <<>> THEN (IF cur = <<>> THEN acc ELSE Append(acc, cur))
  ELSE IF IsSpace(s[1])
       THEN FieldsFrom(Tail(s), <<>>, IF cur = <<>> THEN acc ELSE Append(acc, cur))
       ELSE FieldsFrom(Tail(s), Append(cur, s[1]), acc)

Fields(s) == FieldsFrom(s, <<>>, <<>>)

\* the words git ls-tree prints for an entry's mode and type
Str_tree == <<116, 114, 101, 101>>
Str_blob == <<98, 108, 111, 98>>
Str_040000 == <<48, 52, 48, 48, 48, 48>>
Str_100644 == <<49, 48, 48, 54, 52, 52>>

\* one line of git ls-tree: "<mode> <type> <object>\t<file>"
LsTreeLine(rec) ==
  (IF rec.kind = "tree" THEN Str_040000 \o <<Space>> \o Str_tree
   ELSE Str_100644 \o <<Space>> \o Str_blob)
  \o <<Space>> \o rec.oid \o <<Tab>> \o rec.name

RECURSIVE LsTreeOutput(_)
LsTreeOutput(recs) ==
  IF recs = <<>> THEN <<>>
  ELSE LsTreeLine(recs[1]) \o <<Newline>> \o LsTreeOutput(Tail(recs))

\* git ls-tree HEAD          (dir = <<>>)
\* git ls-tree HEAD:<dir>    a directory of the head commit, named exactly
GitLsTree(f, p, dir) ==
  IF GitOpens(f, p) /\ f[p].commit # <<>> /\ dir \in DOMAIN f[p].tree
  THEN [ok |-> TRUE, out |-> LsTreeOutput(f[p].tree[dir])]
  ELSE [ok |-> FALSE, out |-> <<>>]

\* git rev-list --count HEAD: fails when HEAD names no commit
GitRevListCount(f, p) ==
  IF GitOpens(f, p) /\ f[p].commit # <<>>
  THEN [ok |-> TRUE, out |-> Itoa(1) \o <<Newline>>]
  ELSE [ok |-> FALSE, out |-> <<>>]

\* git log -1 --format=%an|%at|%s
GitLog1(f, p) ==
  IF GitOpens(f, p) /\ f[p].commit # <<>>
  THEN LET c == f[p].commit[1]
       IN [ok |-> TRUE,
           out |-> c.author \o <<Bar>> \o Itoa(c.date) \o <<Bar>> \o c.subject
                   \o <<Newline>>]
  ELSE [ok |-> FALSE, out |-> <<>>]

\* git cat-file -s <object>: the size of a blob of the head commit
GitCatFileSize(f, p, oid) ==
  LET hits == {r \in UNION {{f[p].tree[d][i] : i \in 1..Len(f[p].tree[d])} :
                            d \in DOMAIN f[p].tree} : r.oid = oid}
  IN IF GitOpens(f, p) /\ hits # {}
     THEN [ok |-> TRUE, out |-> Itoa((CHOOSE r \in hits : TRUE).size) \o <<Newline>>]
     ELSE [ok |-> FALSE, out |-> <<>>]

(***************************************************************************)
(* CommitMetadataReader and TreeReader: src/main.go                        *)
(***************************************************************************)

\* <<>> is the nil *CommitInfo
getLastCommit(f, repoPath) ==
  LET r == GitLog1(f, repoPath)
      parts == SplitOn(TrimSpace(r.out), Bar)
  IN IF ~r.ok THEN <<>>
     ELSE IF Len(parts) # 3 THEN <<>>
     ELSE IF ParseInt(parts[2]) < 0 THEN <<>>
     ELSE <<[author |-> parts[1], date |-> ParseInt(parts[2]), subject |-> parts[3]]>>

hasCommits(f, repoPath) ==
  LET r == GitRevListCount(f, repoPath)
  IN IF ~r.ok THEN FALSE
     ELSE IF ParseInt(TrimSpace(r.out)) < 0 THEN FALSE
     ELSE ParseInt(TrimSpace(r.out)) > 0

getGitObjectSize(f, repoPath, objectHash) ==
  LET r == GitCatFileSize(f, repoPath, objectHash)
  IN IF ~r.ok THEN 0
     ELSE IF ParseInt(TrimSpace(r.out)) < 0 THEN 0
     ELSE ParseInt(TrimSpace(r.out))

\* the loop over the lines of git ls-tree, shared by getRepositoryFiles and
\* getDirectoryContents: a GitFile per line of at least four fields.
\* dirPath is <<>> for the root.
RECURSIVE ParseLsTree(_, _, _, _)
ParseLsTree(f, repoPath, dirPath, lines) ==
  IF lines = <<>> THEN <<>>
  ELSE LET line == lines[1]
           parts == Fields(line)
           fileType == IF parts[2] = Str_tree THEN "dir" ELSE "file"
           fileName == JoinWith(SubSeq(parts, 4, Len(parts)), <<Space>>)
           rest == ParseLsTree(f, repoPath, dirPath, Tail(lines))
       IN IF line = <<>> \/ Len(parts) < 4 THEN rest
          ELSE <<[Name |-> fileName,
                  Path |-> IF dirPath = <<>> THEN fileName
                           ELSE Join(<<dirPath, fileName>>),
                  Type |-> fileType,
                  Size |-> IF fileType = "file"
                           THEN getGitObjectSize(f, repoPath, parts[3]) ELSE 0]>>
               \o rest

\* an ordering that compares the names as they are, not their lower case
FileLessCaseSensitive(a, b) ==
  IF a.Type # b.Type THEN a.Type = "dir"
  ELSE StrLess(a.Name, b.Name)

\* the less function both listings hand to sort.Slice: directories first,
\* then strings.ToLower(name) ascending
FileLess(a, b) ==
  IF a.Type # b.Type THEN a.Type = "dir"
  ELSE StrLess(ToLower(a.Name), ToLower(b.Name))

\* the permutations of 1..n
Perms(n) == {p \in [1..n -> 1..n] : \A i, j \in 1..n : p[i] = p[j] => i = j}

\* sort.Slice(s, less), less given as the pairs <<i, j>> of indices with
\* less(i, j): not stable, so every arrangement of s that less does not
\* contradict is a possible result
SortSlice(s, less) ==
  {[i \in 1..Len(s) |-> s[p[i]]] :
     p \in {q \in Perms(Len(s)) :
              \A i, j \in 1..Len(s) : i < j => <<q[j], q[i]>> \notin less}}

\* the func(i, j int) bool both listings hand to sort.Slice
FilesLess(files) ==
  {ij \in (1..Len(files)) \X (1..Len(files)) : FileLess(files[ij[1]], files[ij[2]])}

\* a root listing that does not ask for the commit count first: git ls-tree
\* is run at once and its failure is the listing's error
getRepositoryFilesUnchecked(f, repoPath) ==
  LET r == GitLsTree(f, repoPath, <<>>)
  IN IF ~r.ok THEN {[err |-> "ls-tree", files |-> <<>>, calls |-> <<"ls-tree">>]}
     ELSE {[err |-> "", files |-> s, calls |-> <<"ls-tree">>] :
             s \in LET files == ParseLsTree(f, repoPath, <<>>,
                                         SplitOn(TrimSpace(r.out), Newline))
                    IN SortSlice(files, FilesLess(files))}

\* the possible results of getRepositoryFiles, each with the subprocesses run
getRepositoryFiles(f, repoPath) ==
  IF ~hasCommits(f, repoPath)
  THEN {[err |-> "", files |-> <<>>, calls |-> <<"rev-list">>]}
  ELSE LET r == GitLsTree(f, repoPath, <<>>)
       IN IF ~r.ok
          THEN {[err |-> "", files |-> <<>>, calls |-> <<"rev-list", "ls-tree">>]}
          ELSE {[err |-> "", files |-> s, calls |-> <<"rev-list", "ls-tree">>] :
                  s \in LET files == ParseLsTree(f, repoPath, <<>>,
                                              SplitOn(TrimSpace(r.out), Newline))
                    IN SortSlice(files, FilesLess(files))}

\* the possible results of getDirectoryContents
getDirectoryContents(f, repoPath, dirPath) ==
  LET r == GitLsTree(f, repoPath, dirPath)
  IN IF ~r.ok THEN {[err |-> "ls-tree", files |-> <<>>, calls |-> <<"ls-tree">>]}
     ELSE {[err |-> "", files |-> s, calls |-> <<"ls-tree">>] :
             s \in LET files == ParseLsTree(f, repoPath, dirPath,
                                         SplitOn(TrimSpace(r.out), Newline))
                    IN SortSlice(files, FilesLess(files))}

(***************************************************************************)
(* GroupCatalog and the repository list: src/main.go                       *)
(***************************************************************************)

\* the least string of a non-empty set, in Go's string order
MinStr(S) == CHOOSE x \in S : \A y \in S : y = x \/ StrLess(x, y)

\* the strings of a set in ascending order: the order os.ReadDir returns
\* file names in, and the result of sort.Strings
RECURSIVE SortedSeq(_)
SortedSeq(S) ==
  IF S = {} THEN <<>>
  ELSE <<MinStr(S)>> \o SortedSeq(S \ {MinStr(S)})

\* os.ReadDir(path) succeeds: a directory the process may read
CanReadDir(f, path) ==
  /\ Exists(f, path)
  /\ f[path].kind \in {"dir", "linkdir"}
  /\ BitAnd(f[path].mode, Mode444) # 0

\* the entries of getDirectories: directories, and symbolic links whose
\* target is a directory, in file-name order
RECURSIVE KeepDirectories(_, _)
KeepDirectories(f, paths) ==
  IF paths = <<>> THEN <<>>
  ELSE (IF f[paths[1]].kind \in {"dir", "linkdir"} THEN <<paths[1]>> ELSE <<>>)
       \o KeepDirectories(f, Tail(paths))

getDirectories(f, path) ==
  IF ~CanReadDir(f, path) THEN [err |-> "readdir", entries |-> <<>>]
  ELSE [err |-> "",
        entries |-> KeepDirectories(f,
                      SortedSeq({q \in DOMAIN f : q # path /\ Dir(q) = path}))]

\* a loop that lists only the repositories that have a last commit
RECURSIVE CollectRepositoriesWithCommits(_, _, _)
CollectRepositoriesWithCommits(f, groupName, paths) ==
  IF paths = <<>> THEN <<>>
  ELSE LET path == paths[1]
           rest == CollectRepositoriesWithCommits(f, groupName, Tail(paths))
           repoName == TrimSuffix(Base(path), Str_dotgit)
       IN IF BitAnd(f[path].mode, Mode444) = 0 THEN rest
          ELSE IF ~f[path].head THEN rest
          ELSE IF getLastCommit(f, path) = <<>> THEN rest
          ELSE <<[Path |-> path, Group |-> groupName, Name |-> repoName,
                  LastCommit |-> getLastCommit(f, path)]>> \o rest

\* the loop of getGitRepositories over the entries
RECURSIVE CollectRepositories(_, _, _)
CollectRepositories(f, groupName, paths) ==
  IF paths = <<>> THEN <<>>
  ELSE LET path == paths[1]
           rest == CollectRepositories(f, groupName, Tail(paths))
           repoName == TrimSuffix(Base(path), Str_dotgit)
       IN IF BitAnd(f[path].mode, Mode444) = 0 THEN rest
          ELSE IF ~f[path].head THEN rest
          ELSE <<[Path |-> path, Group |-> groupName, Name |-> repoName,
                  LastCommit |-> getLastCommit(f, path)]>> \o rest

\* a less function that puts the oldest commit first
RepoLessOldestFirst(a, b) ==
  IF a.LastCommit = <<>> THEN FALSE
  ELSE IF b.LastCommit = <<>> THEN TRUE
  ELSE a.LastCommit[1].date < b.LastCommit[1].date

\* the less function getGitRepositories hands to sort.Slice
RepoLess(a, b) ==
  IF a.LastCommit = <<>> THEN FALSE
  ELSE IF b.LastCommit = <<>> THEN TRUE
  ELSE a.LastCommit[1].date > b.LastCommit[1].date

\* the func(i, j int) bool getGitRepositories hands to sort.Slice
ReposLess(repositories) ==
  {ij \in (1..Len(repositories)) \X (1..Len(repositories)) :
     RepoLess(repositories[ij[1]], repositories[ij[2]])}

\* the possible results of getGitRepositories
getGitRepositories(f, groupName) ==
  IF groupName = <<>> THEN {[err |-> "nogroup", repos |-> <<>>]}
  ELSE LET d == getDirectories(f, Join(<<GitRepositoryHome, groupName>>))
       IN IF d.err # "" THEN {[err |-> d.err, repos |-> <<>>]}
          ELSE {[err |-> "", repos |-> s] :
                  s \in LET repositories == CollectRepositories(f, groupName, d.entries)
                        IN SortSlice(repositories, ReposLess(repositories))}

\* GroupNameBlacklist: ^git-shell-commands$
MatchesBlacklist(name) == name = Str_shellcommands

isValidGroupName(name) == MatchesNamePattern(name) /\ ~MatchesBlacklist(name)

\* the loop of getGroupList: the names appended, and whether "git" was seen
RECURSIVE ScanGroups(_, _)
ScanGroups(f, paths) ==
  IF paths = <<>> THEN [groups |-> {}, hasGitGroup |-> FALSE]
  ELSE LET entryPath == paths[1]
           groupName == Base(entryPath)
           rest == ScanGroups(f, Tail(paths))
       IN IF ~isValidGroupName(groupName) THEN rest
          ELSE [groups |-> IF BitAnd(f[entryPath].mode, Mode444) = 0
                           THEN rest.groups
                           ELSE rest.groups \cup {groupName},
                hasGitGroup |-> rest.hasGitGroup \/ groupName = Str_git]

\* a group list that is not sorted after the default group was appended
getGroupListAppending(f) ==
  LET d == getDirectories(f, GitRepositoryHome)
      scan == ScanGroups(f, d.entries)
  IN IF d.err # "" THEN [err |-> d.err, groups |-> <<>>]
     ELSE [err |-> "",
           groups |-> SortedSeq(scan.groups)
                      \o (IF scan.hasGitGroup THEN <<>> ELSE <<Str_git>>)]

getGroupList(f) ==
  LET d == getDirectories(f, GitRepositoryHome)
      scan == ScanGroups(f, d.entries)
  IN IF d.err # "" THEN [err |-> d.err, groups |-> <<>>]
     ELSE [err |-> "",
           groups |-> SortedSeq(IF scan.hasGitGroup THEN scan.groups
                                ELSE scan.groups \cup {Str_git})]

(***************************************************************************)
(* The HTTP handlers: src/main.go                                          *)
(***************************************************************************)

\* the response of a create or delete request.  changed: whether the
\* request altered the disk; revoked: whether a delete's os.Chmod(0000)
\* succeeded
WriteResp(op, arg, path, status, err, changed, revoked) ==
  [op |-> op, arg |-> arg, path |-> path, status |-> status, err |-> err,
   changed |-> changed, revoked |-> revoked]

NoWrite == WriteResp("none", <<>>, <<>>, 0, "", FALSE, FALSE)

\* what is remembered of the response before the latest one
Brief(w) == [op |-> w.op, path |-> w.path, status |-> w.status]

\* the response of a read request.  files, repos, groups: the JSON body;
\* commit: the repository's lastCommit; calls: the git subprocesses run for
\* the listing
ReadResp(op, arg, status, err, files, repos, groups, commit, calls) ==
  [op |-> op, arg |-> arg, status |-> status, err |-> err, files |-> files,
   repos |-> repos, groups |-> groups, commit |-> commit, calls |-> calls]

NoRead == ReadResp("none", <<>>, 0, "", <<>>, <<>>, <<>>, <<>>, <<>>)

\* repositoriesHandler, POST {name, group}
repositoriesPost(f, name, group, id, io) ==
  LET v == validateRepositoryName(f, name, group)
      c == createRepository(f, name, group, id, io)
  IN IF v # ""
     THEN [fs |-> f,
           resp |-> WriteResp("create", <<name, group>>, c.path, 400, v, FALSE, FALSE)]
     ELSE [fs |-> c.fs,
           resp |-> WriteResp("create", <<name, group>>, c.path,
                              IF c.err # "" THEN 500 ELSE 201, c.err,
                              c.fs # f, FALSE)]

\* repositoryDetailsHandler, POST {operation: "delete"} to
\* /api/repository/<encodedPath>
repositoryDetailsPost(f, encodedPath, io) ==
  LET u == PathUnescape(encodedPath)
      d == deleteRepository(f, u.val, io)
  IN IF ~u.ok
     THEN [fs |-> f,
           resp |-> WriteResp("delete", encodedPath, <<>>, 400, "escape", FALSE, FALSE)]
     ELSE [fs |-> d.fs,
           resp |-> WriteResp("delete", encodedPath, d.path,
                              IF d.err # "" THEN 500 ELSE 200, d.err,
                              d.fs # f, d.revoked)]

\* repositoryDetailsHandler, GET /api/repository/<encodedPath>: the possible
\* responses
repositoryDetailsGet(f, encodedPath) ==
  LET u == PathUnescape(encodedPath)
      sp == splitRepositoryName(u.val)
      repoPath == Abs(Join(<<GitRepositoryHome, sp.group, sp.name>>) \o Str_dotgit)
  IN IF ~u.ok
     THEN {ReadResp("details", encodedPath, 400, "escape", <<>>, <<>>, <<>>, <<>>, <<>>)}
     ELSE IF ~Exists(f, repoPath)
     THEN {ReadResp("details", encodedPath, 404, "notfound", <<>>, <<>>, <<>>, <<>>, <<>>)}
     ELSE {ReadResp("details", encodedPath, IF r.err # "" THEN 500 ELSE 200, r.err,
                    r.files, <<>>, <<>>, getLastCommit(f, repoPath), r.calls) :
             r \in getRepositoryFiles(f, repoPath)}

\* repositoriesHandler, GET /api/repositories?group=<group>
repositoriesGet(f, group) ==
  LET groupName == IF group = <<>> THEN Str_git ELSE group
  IN {ReadResp("repositories", group, IF r.err # "" THEN 500 ELSE 200, r.err,
               <<>>, r.repos, <<>>, <<>>, <<>>) :
        r \in getGitRepositories(f, groupName)}

\* groupsHandler, GET /api/groups
groupsGet(f) ==
  LET r == getGroupList(f)
  IN ReadResp("groups", <<>>, IF r.err # "" THEN 500 ELSE 200, r.err,
              <<>>, <<>>, r.groups, <<>>, <<>>)

\* directoryContentsHandler, the path codec: encodedPath is r.URL.Path
\* without "/api/directory/".  The two "/" are looked for in it, then each
\* part is unescaped.  err is "" when the three parts are decoded.
ParseDirectoryPath(encodedPath) ==
  LET firstSlashPos == Index(encodedPath, Slash)
      rest == SliceFrom(encodedPath, firstSlashPos + 1)
      secondSlashPos == IF Index(rest, Slash) < 0 THEN -1
                        ELSE Index(rest, Slash) + firstSlashPos + 1
      encodedGroupName == Slice(encodedPath, 0, firstSlashPos)
      encodedRepoName == IF secondSlashPos < 0 THEN rest
                         ELSE Slice(encodedPath, firstSlashPos + 1, secondSlashPos)
      encodedDirPath == IF secondSlashPos < 0 THEN <<>>
                        ELSE SliceFrom(encodedPath, secondSlashPos + 1)
      g == PathUnescape(encodedGroupName)
      n == PathUnescape(encodedRepoName)
      d == PathUnescape(encodedDirPath)
      bad(e) == [err |-> e, group |-> <<>>, name |-> <<>>, dir |-> <<>>]
  IN IF firstSlashPos < 0 THEN bad("malformed")
     ELSE IF ~g.ok THEN bad("group")
     ELSE IF ~n.ok THEN bad("name")
     ELSE IF encodedDirPath # <<>> /\ ~d.ok THEN bad("dir")
     ELSE [err |-> "", group |-> g.val, name |-> n.val, dir |-> d.val]

\* directoryContentsHandler, GET /api/directory/<encodedPath>: the possible
\* responses
directoryContentsHandler(f, encodedPath) ==
  LET pp == ParseDirectoryPath(encodedPath)
      fullRepoPath == RepoPath(pp.group, pp.name)
      fullDirPath == Join(<<fullRepoPath, pp.dir>>)
      absRepoPath == Abs(fullRepoPath)
      absDirPath == Abs(fullDirPath)
      plain(status, err) ==
        {ReadResp("directory", encodedPath, status, err, <<>>, <<>>, <<>>, <<>>, <<>>)}
      listed(rs) ==
        {ReadResp("directory", encodedPath, IF r.err # "" THEN 500 ELSE 200, r.err,
                  r.files, <<>>, <<>>, <<>>, r.calls) : r \in rs}
  IN IF pp.err # "" THEN plain(400, pp.err)
     ELSE IF ~Exists(f, fullRepoPath) THEN plain(404, "notfound")
     ELSE IF pp.dir = <<>> THEN listed(getRepositoryFiles(f, fullRepoPath))
     ELSE IF ~HasPrefix(absDirPath, absRepoPath) THEN plain(400, "pathescape")
     ELSE listed(getDirectoryContents(f, fullRepoPath, pp.dir))

(***************************************************************************)
(* BlobReader: src/main.go                                                 *)
(***************************************************************************)

\* "binary: set", the words of git check-attr that getFileContent looks for
Str_binaryset == <<98, 105, 110, 97, 114, 121, 58, 32, 115, 101, 116>>

\* "binary: unspecified"
Str_binaryunspecified ==
  <<98, 105, 110, 97, 114, 121, 58, 32, 117, 110, 115, 112, 101, 99, 105, 102,
    105, 101, 100>>

\* "HEAD:"
Str_HEADcolon == Str_HEAD \o <<58>>

\* strings.Contains
RECURSIVE Contains(_, _)
Contains(s, sub) ==
  IF Len(s) < Len(sub) THEN FALSE
  ELSE HasPrefix(s, sub) \/ Contains(Tail(s), sub)

\* how git check-attr may end: it fails, or it reports the attribute of the
\* path as set or as unspecified (the attributes of a repository are not
\* part of the disk modelled here)
CheckAttrOutcomes == {"fail", "set", "unspecified"}

\* git check-attr binary HEAD:<filePath>: "<path>: binary: <value>"
GitCheckAttr(f, p, filePath, attr) ==
  IF ~GitOpens(f, p) \/ attr = "fail" THEN [ok |-> FALSE, out |-> <<>>]
  ELSE [ok |-> TRUE,
        out |-> Str_HEADcolon \o filePath \o <<58, Space>>
                \o (IF attr = "set" THEN Str_binaryset ELSE Str_binaryunspecified)
                \o <<Newline>>]

\* the bytes of a blob: one content per object
BlobContent(rec) == rec.oid \o <<Newline>>

\* the record of the head commit that filePath names, as a set: empty when
\* it names nothing
RecordAt(f, p, filePath) ==
  LET i == LastIndex(filePath, Slash)
      dir == IF i < 0 THEN <<>> ELSE Slice(filePath, 0, i)
      name == SliceFrom(filePath, i + 1)
  IN IF dir \notin DOMAIN f[p].tree THEN {}
     ELSE {f[p].tree[dir][k] : k \in {j \in 1..Len(f[p].tree[dir]) :
                                        f[p].tree[dir][j].name = name}}

\* git show HEAD:<filePath>: the bytes of a blob; for a directory, its
\* entries by name; fails when the path names nothing at the head commit
GitShow(f, p, filePath) ==
  IF ~(GitOpens(f, p) /\ f[p].commit # <<>>) THEN [ok |-> FALSE, out |-> <<>>]
  ELSE IF filePath \in DOMAIN f[p].tree
  THEN [ok |-> TRUE,
        out |-> Str_tree \o <<Space>> \o Str_HEADcolon \o filePath
                \o <<Newline, Newline>>
                \o JoinWith([k \in 1..Len(f[p].tree[filePath]) |->
                               f[p].tree[filePath][k].name
                               \o (IF f[p].tree[filePath][k].kind = "tree"
                                   THEN <<Slash>> ELSE <<>>) \o <<Newline>>],
                            <<>>)]
  ELSE IF \E rec \in RecordAt(f, p, filePath) : rec.kind = "blob"
  THEN [ok |-> TRUE,
        out |-> BlobContent(CHOOSE rec \in RecordAt(f, p, filePath) : TRUE)]
  ELSE [ok |-> FALSE, out |-> <<>>]

\* a reader that retrieves the content first and asks for the attribute
\* afterwards
getFileContentShowFirst(f, repoPath, filePath, attr) ==
  LET check == GitCheckAttr(f, repoPath, filePath, attr)
      show == GitShow(f, repoPath, filePath)
  IN IF ~show.ok
     THEN [content |-> <<>>, isBinary |-> FALSE, err |-> "show",
           calls |-> <<"show">>]
     ELSE IF ~check.ok
     THEN [content |-> <<>>, isBinary |-> FALSE, err |-> "check-attr",
           calls |-> <<"show", "check-attr">>]
     ELSE [content |-> show.out,
           isBinary |-> Contains(check.out, Str_binaryset),
           err |-> "",
           calls |-> <<"show", "check-attr">>]

\* getFileContent: content, isBinary, err ("" is nil) and the subprocesses
\* run.  A working-tree repository (isNormal) is asked the same questions
\* with git -C.
getFileContent(f, repoPath, filePath, attr) ==
  LET check == GitCheckAttr(f, repoPath, filePath, attr)
      show == GitShow(f, repoPath, filePath)
  IN IF ~check.ok
     THEN [content |-> <<>>, isBinary |-> FALSE, err |-> "check-attr",
           calls |-> <<"check-attr">>]
     ELSE IF Contains(check.out, Str_binaryset)
     THEN [content |-> <<>>, isBinary |-> TRUE, err |-> "",
           calls |-> <<"check-attr">>]
     ELSE IF ~show.ok
     THEN [content |-> <<>>, isBinary |-> FALSE, err |-> "show",
           calls |-> <<"check-attr", "show">>]
     ELSE [content |-> show.out, isBinary |-> FALSE, err |-> "",
           calls |-> <<"check-attr", "show">>]

\* the response of a file request: a read response and the JSON body's
\* isBinary and content
FileResp(arg, status, err, isBinary, content, calls) ==
  [op |-> "file", arg |-> arg, status |-> status, err |-> err, files |-> <<>>,
   repos |-> <<>>, groups |-> <<>>, commit |-> <<>>, calls |-> calls,
   isBinary |-> isBinary, content |-> content]

\* a codec for file requests that takes a missing second "/" for an empty
\* file path, as the codec for directory requests does
ParseFilePathLenient(encodedPath) ==
  LET pp == ParseDirectoryPath(encodedPath)
  IN [err |-> IF pp.err = "dir" THEN "file" ELSE pp.err,
      group |-> pp.group, name |-> pp.name, file |-> pp.dir]

\* fileContentsHandler, the path codec: both "/" are required
ParseFilePath(encodedPath) ==
  LET firstSlashPos == Index(encodedPath, Slash)
      rest == SliceFrom(encodedPath, firstSlashPos + 1)
      secondSlashPos == Index(rest, Slash) + firstSlashPos + 1
      g == PathUnescape(Slice(encodedPath, 0, firstSlashPos))
      n == PathUnescape(Slice(encodedPath, firstSlashPos + 1, secondSlashPos))
      d == PathUnescape(SliceFrom(encodedPath, secondSlashPos + 1))
      bad(e) == [err |-> e, group |-> <<>>, name |-> <<>>, file |-> <<>>]
  IN IF firstSlashPos < 0 THEN bad("malformed")
     ELSE IF Index(rest, Slash) < 0 THEN bad("malformed")
     ELSE IF ~g.ok THEN bad("group")
     ELSE IF ~n.ok THEN bad("name")
     ELSE IF ~d.ok THEN bad("file")
     ELSE [err |-> "", group |-> g.val, name |-> n.val, file |-> d.val]

\* fileContentsHandler, GET /api/file/<encodedPath>; attr: how git
\* check-attr ends if it is run
fileContentsHandler(f, encodedPath, attr) ==
  LET pp == ParseFilePath(encodedPath)
      fullRepoPath == RepoPath(pp.group, pp.name)
      isNormal == Exists(f, Join(<<fullRepoPath, Str_dotgit>>))
      isBare == f[fullRepoPath].head /\ ~isNormal
      r == getFileContent(f, fullRepoPath, pp.file, attr)
  IN IF pp.err # "" THEN FileResp(encodedPath, 400, pp.err, FALSE, <<>>, <<>>)
     ELSE IF ~Exists(f, fullRepoPath)
     THEN FileResp(encodedPath, 404, "notfound", FALSE, <<>>, <<>>)
     ELSE IF ~isNormal /\ ~isBare
     THEN FileResp(encodedPath, 400, "notgit", FALSE, <<>>, <<>>)
     ELSE IF r.err # ""
     THEN FileResp(encodedPath, 500, r.err, FALSE, <<>>, r.calls)
     ELSE IF r.isBinary
     THEN FileResp(encodedPath, 200, "", TRUE, <<>>, r.calls)
     ELSE FileResp(encodedPath, 200, "", FALSE, r.content, r.calls)

(***************************************************************************)
(* The store over time: create and delete requests, pushes, and the read   *)
(* requests that observe the disk between them                             *)
(***************************************************************************)

vars == <<fs, nextId, last, prev, view, wire>>

\* how many directories the create requests of one behaviour may make
MaxRepos == 2

Str_dev == <<100, 101, 118>>
Str_p == <<112>>
Str_README == <<82, 69, 65, 68, 77, 69, 46, 109, 100>>

\* the names and groups of the create requests
NameInputs == {<<>>, Str_p}

GroupInputs == {<<>>, Str_git}

\* the paths of the requests to /api/repository/: "p", "git/p"
RepositoryTails == {Str_p, Str_git \o <<Slash>> \o Str_p}

\* what a first push leaves in a repository: one commit adding README.md
\* (10 bytes)
PushedCommit == [author |-> <<97>>, date |-> 5, subject |-> <<115>>]

PushedTree ==
  (<<>> :> <<[kind |-> "blob", oid |-> <<98, 49>>, name |-> Str_README, size |-> 10]>>)

\* no browse request under way
NoWire == [stage |-> "idle"]

\* only the store root exists
Init ==
  /\ fs = (GitRepositoryHome :> PlainDir(0, Mode755))
  /\ nextId = 1
  /\ last = NoWrite
  /\ prev = Brief(NoWrite)
  /\ view = NoRead
  /\ wire = NoWire

\* how the system calls of a create request may end; what follows the
\* first failure is not run, so it is fixed to TRUE
CreateOutcomes ==
  {io \in [mkdir : BOOLEAN, init : BOOLEAN, cleanup : BOOLEAN] :
     /\ ~io.mkdir => io.init
     /\ io.init => io.cleanup}

\* how the system calls of a delete request may end
DeleteOutcomes ==
  {io \in [restore : BOOLEAN, remove : BOOLEAN, rename : BOOLEAN, revoke : BOOLEAN] :
     /\ ~io.remove => io.rename
     /\ ~io.rename => io.revoke}

\* POST /api/repositories
Create(name, group) ==
  /\ nextId <= MaxRepos
  /\ \E io \in CreateOutcomes :
       LET r == repositoriesPost(fs, name, group, nextId, io)
       IN /\ fs' = r.fs
          /\ nextId' = IF \E q \in DOMAIN r.fs : r.fs[q].id = nextId
                       THEN nextId + 1 ELSE nextId
          /\ last' = r.resp
  /\ prev' = Brief(last)
  /\ view' = NoRead
  /\ UNCHANGED wire

\* POST /api/repository/<tail> {operation: "delete"}
Delete(tail) ==
  /\ \E io \in DeleteOutcomes :
       LET r == repositoryDetailsPost(fs, tail, io)
       IN /\ fs' = r.fs
          /\ last' = r.resp
  /\ prev' = Brief(last)
  /\ view' = NoRead
  /\ UNCHANGED <<nextId, wire>>

\* git push by a user of the clone URL git@host:group/name.git: the first
\* commit arrives in a repository
Push(path) ==
  /\ path \in DOMAIN fs
  /\ HasSuffix(path, Str_dotgit)
  /\ fs[path].head
  /\ fs[path].commit = <<>>
  /\ fs' = [fs EXCEPT ![path].commit = <<PushedCommit>>, ![path].tree = PushedTree]
  /\ last' = WriteResp("push", <<>>, path, 0, "", TRUE, FALSE)
  /\ prev' = Brief(last)
  /\ view' = NoRead
  /\ UNCHANGED <<nextId, wire>>

\* GET /api/repository/<tail>
Details(tail) ==
  /\ view' \in repositoryDetailsGet(fs, tail)
  /\ UNCHANGED <<fs, nextId, last, prev, wire>>

\* GET /api/repositories?group=<group>
Repositories(group) ==
  /\ view' \in repositoriesGet(fs, group)
  /\ UNCHANGED <<fs, nextId, last, prev, wire>>

\* GET /api/groups
Groups ==
  /\ view' = groupsGet(fs)
  /\ UNCHANGED <<fs, nextId, last, prev, wire>>

Next ==
  \/ \E name \in NameInputs, group \in GroupInputs : Create(name, group)
  \/ \E tail \in RepositoryTails : Delete(tail)
  \/ \E path \in DOMAIN fs : Push(path)
  \/ \E tail \in RepositoryTails : Details(tail)
  \/ \E group \in GroupInputs : Repositories(group)
  \/ Groups

Spec == Init /\ [][Next]_vars

(***************************************************************************)
(* Claims about the repository lifecycle, checked under Spec               *)
(***************************************************************************)

\* the quarantine path of an active path
Quarantine(path) == path \o Str_dotdeleted

\* the identities of the directories on a disk
IdsOnDisk(f) == {f[q].id : q \in DOMAIN f}

\* the latest write is a delete request answered with success
DeleteSucceeded == last.op = "delete" /\ last.status = 200

\* the (group, name) a request to /api/repository/<tail> resolves to
Resolved(tail) == splitRepositoryName(PathUnescape(tail).val)

\* C1, as stated: after a successful delete the repository resolves to
\* NotFound and the quarantine path exists with permission mode 0.
C1_QuarantinedModeZero ==
  DeleteSucceeded =>
    /\ \A r \in repositoryDetailsGet(fs, last.arg) : r.status = 404
    /\ Exists(fs, Quarantine(last.path))
    /\ fs[Quarantine(last.path)].mode = Mode000

\* C1, amended: after a successful delete the repository resolves to
\* NotFound and the quarantine path exists; its mode is 0 when the
\* permission revocation succeeded (a failed revocation is only logged).
C1_QuarantinedAndRevokedIfChmodSucceeded ==
  DeleteSucceeded =>
    /\ \A r \in repositoryDetailsGet(fs, last.arg) : r.status = 404
    /\ ~Exists(fs, last.path)
    /\ Exists(fs, Quarantine(last.path))
    /\ last.revoked => fs[Quarantine(last.path)].mode = Mode000

C1_Witness ==
  /\ DeleteSucceeded
  /\ last.revoked
  /\ Exists(fs, Quarantine(last.path))
  /\ fs[Quarantine(last.path)].mode = Mode000
  /\ view.op = "details" /\ view.arg = last.arg /\ view.status = 404

\* C2, as stated: no step removes the content of a repository from the
\* disk: every initialised repository directory of the old state is still
\* somewhere on disk in the new state.
C2_NeverHardRemoved ==
  [][\A q \in DOMAIN fs : fs[q].head => fs[q].id \in IdsOnDisk(fs')]_vars

\* C2, amended: the only repository content ever removed from the disk is
\* an older quarantine, removed by a delete request for the same name that
\* needs its quarantine path; a repository at its active path is never
\* removed, and a successful delete keeps the repository it is given,
\* unaltered but for its mode, at the quarantine path.
C2_OnlyAnOlderQuarantineIsRemoved ==
  [][/\ \A q \in DOMAIN fs :
          (fs[q].head /\ fs[q].id \notin IdsOnDisk(fs')) =>
            /\ HasSuffix(q, Str_dotdeleted)
            /\ last'.op = "delete"
            /\ q = Quarantine(last'.path)
     /\ (fs' # fs /\ last'.op = "delete" /\ last'.status = 200) =>
          /\ Exists(fs', Quarantine(last'.path))
          /\ [fs'[Quarantine(last'.path)] EXCEPT !.mode = 0]
               = [fs[last'.path] EXCEPT !.mode = 0]]_vars

C2_Witness ==
  /\ DeleteSucceeded
  /\ prev.op = "create" /\ prev.status = 201
  /\ nextId = 3
  /\ Exists(fs, Quarantine(last.path))
  /\ fs[Quarantine(last.path)].id = 2
  /\ 1 \notin IdsOnDisk(fs)

\* the latest two writes are delete requests for the same repository, the
\* first of them answered with success
DeletedTwice ==
  /\ prev.op = "delete" /\ prev.status = 200
  /\ last.op = "delete" /\ last.path = prev.path

\* C3, as stated: of two delete requests in succession for the same
\* repository both succeed.
C3_SecondDeleteSucceeds == DeletedTwice => last.status = 200

\* C3, amended: of two delete requests in succession for the same
\* repository the first succeeds and the second fails, as the repository
\* does not exist, and changes nothing; after either, a create request for
\* that name is not rejected as existing: it passes validation.
C3_SecondDeleteFailsCreateNotBlocked ==
  /\ DeletedTwice =>
       /\ last.status = 500 /\ last.err = "notexist" /\ ~last.changed
       /\ validateRepositoryName(fs, Resolved(last.arg).name, Resolved(last.arg).group) = ""
  /\ DeleteSucceeded =>
       validateRepositoryName(fs, Resolved(last.arg).name, Resolved(last.arg).group) = ""
  /\ (prev.op = "delete" /\ prev.status = 200
        /\ last.op = "create" /\ last.path = prev.path) =>
       last.status # 400

C3_Witness ==
  /\ DeletedTwice
  /\ last.status = 500
  /\ Exists(fs, Quarantine(last.path))
  /\ fs[Quarantine(last.path)].mode = Mode000

\* C4: a directory at an active path (<name>.git) is, after any step,
\* either the one that was there before the step or a freshly created one:
\* a new identity, never seen on disk, with no commits.  Nothing comes
\* back from a quarantine path.
C4_OneWay ==
  [][/\ \A q \in DOMAIN fs' :
          HasSuffix(q, Str_dotgit) =>
            \/ q \in DOMAIN fs /\ fs[q].id = fs'[q].id
            \/ /\ fs'[q].id = nextId
               /\ nextId' = nextId + 1
               /\ fs'[q].commit = <<>>
               /\ fs'[q].tree = NoTree
     /\ \A q \in DOMAIN fs : fs[q].id < nextId]_vars

C4_Witness ==
  \E q \in DOMAIN fs :
    /\ HasSuffix(q, Str_dotgit)
    /\ fs[q].head
    /\ Exists(fs, Quarantine(q))
    /\ fs[Quarantine(q)].id < fs[q].id
    /\ last.op = "create" /\ last.status = 201 /\ last.path = q

\* C5: no response lists or resolves a quarantined repository: no entry of
\* a repository list lies at a quarantine path, no group name is one, and
\* no details request for the name of a quarantined repository succeeds.
C5_QuarantinedNotDiscovered ==
  /\ view.op = "repositories" =>
       \A i \in 1..Len(view.repos) : ~HasSuffix(view.repos[i].Path, Str_dotdeleted)
  /\ view.op = "groups" =>
       \A i \in 1..Len(view.groups) : ~HasSuffix(view.groups[i], Str_dotdeleted)
  /\ (view.op = "details" /\ DeleteSucceeded /\ view.arg = last.arg) =>
       view.status = 404

(***************************************************************************)
(* Browsing a repository: one repository git/p whose head commit is drawn  *)
(* by Init, and the listing requests that read it                          *)
(***************************************************************************)

\* how many of PoolNames the entries of a root directory are drawn from
MaxNames == 3

\* the file names of a commit: "a", "B", "d", "A", "_"
PoolNames == <<<<97>>, <<66>>, <<100>>, <<65>>, <<95>>>>

NamePool == {PoolNames[i] : i \in 1..MaxNames}

\* the records git ls-tree prints for a directory whose entries are given as
\* name -> "none", "blob" or "tree": git keeps a tree's entries in byte order
\* of their names (no name of the pool is a prefix of another)
Records(assign) ==
  LET names == SortedSeq({n \in DOMAIN assign : assign[n] # "none"})
  IN [i \in 1..Len(names) |->
        [kind |-> assign[names[i]],
         oid |-> (IF assign[names[i]] = "tree" THEN <<116>> ELSE <<98>>)
                 \o Itoa(names[i][1]),
         name |-> names[i],
         size |-> names[i][1] % 50]]

\* what a directory below the root may hold
NestedContents ==
  {(PoolNames[1] :> "blob"),
   (PoolNames[2] :> "blob") @@ (PoolNames[1] :> "tree"),
   (PoolNames[2] :> "tree") @@ (PoolNames[1] :> "blob") @@ (PoolNames[3] :> "blob")}

\* the directories of a commit: the root, the directories of the root, and
\* theirs, which hold README.md alone
TreeOf(root, nested) ==
  LET top == {n \in DOMAIN root : root[n] = "tree"}
      second == UNION {{n \o <<Slash>> \o m :
                          m \in {x \in DOMAIN nested[n] : nested[n][x] = "tree"}} :
                       n \in top}
  IN (<<>> :> Records(root))
     @@ [d \in top |-> Records(nested[d])]
     @@ [d \in second |-> PushedTree[<<>>]]

\* the commits a push may have left
PushedTrees ==
  UNION {{TreeOf(root, nested) :
            nested \in [{n \in NamePool : root[n] = "tree"} -> NestedContents]} :
         root \in [NamePool -> {"none", "blob", "tree"}]}

\* the group directory /home/git/git and the repository git/p
GroupDir == Join(<<GitRepositoryHome, Str_git>>)

RepoP == RepoPath(Str_git, Str_p)

\* the disk after POST /api/repositories {name: "p"} and what was pushed
DiskWithRepo(commit, tree) ==
  (GitRepositoryHome :> PlainDir(0, Mode755))
  @@ (GroupDir :> PlainDir(0, Mode755))
  @@ (RepoP :> [GitInitBare((RepoP :> PlainDir(1, Mode755)), RepoP)[RepoP]
                  EXCEPT !.commit = commit, !.tree = tree])

TreeInit ==
  /\ fs \in {DiskWithRepo(<<>>, NoTree)}
            \cup {DiskWithRepo(<<PushedCommit>>, t) : t \in PushedTrees}
  /\ nextId = 2
  /\ last = NoWrite
  /\ prev = Brief(NoWrite)
  /\ view = NoRead
  /\ wire = NoWire

\* "%2E%2E" and "%2F": ".." and "/" as they stand in r.URL.Path when the
\* request line held "%252E%252E" and "%252F"
Esc_dotdot == <<37, 50, 69, 37, 50, 69>>
Esc_slash == <<37, 50, 70>>
Str_q == <<113>>

\* the sub-paths of the directory requests
SubPaths ==
  NamePool
  \cup {n \o <<Slash>> \o PoolNames[1] : n \in NamePool}
  \cup {<<>>,
        <<37, 50>>,
        Esc_dotdot,
        Esc_dotdot \o Esc_slash \o Str_p \o Str_dotgit \o Str_dotdeleted,
        PoolNames[3] \o Esc_slash \o Esc_dotdot,
        PoolNames[3] \o Esc_slash \o Esc_dotdot \o Esc_slash \o Esc_dotdot
          \o Esc_slash \o Str_q \o Str_dotgit}

\* the paths of the requests to /api/directory/
DirectoryTails ==
  {Str_p, Str_git \o <<Slash>> \o Str_q, Str_git \o <<Slash>> \o Str_p}
  \cup {Str_git \o <<Slash>> \o Str_p \o <<Slash>> \o d : d \in SubPaths}

\* GET /api/directory/<tail>
Directory(tail) ==
  /\ view' \in directoryContentsHandler(fs, tail)
  /\ UNCHANGED <<fs, nextId, last, prev, wire>>

TreeNext ==
  \/ \E tail \in DirectoryTails : Directory(tail)
  \/ \E tail \in RepositoryTails : Details(tail)

SpecTree == TreeInit /\ [][TreeNext]_vars

(***************************************************************************)
(* The catalog: the store root as an administrator may have left it, and   *)
(* the requests that list groups and repositories                          *)
(***************************************************************************)

\* nothing on disk
NoDisk == [q \in {} |-> q]

\* a directory entry in one of its states: absent, a directory, a directory
\* without permissions, a file, a symbolic link to a directory or to nothing
Entry(path, state) ==
  IF state = "absent" THEN NoDisk
  ELSE path :> [PlainDir(0, IF state = "dir000" THEN Mode000 ELSE Mode755)
                  EXCEPT !.kind = IF state = "dir000" THEN "dir" ELSE state]

\* a repository below the group directory: absent, without commits, pushed to
RepoEntry(path, state) ==
  IF state = "absent" THEN NoDisk
  ELSE path :> [GitInitBare((path :> PlainDir(1, Mode755)), path)[path]
                  EXCEPT !.commit = IF state = "pushed" THEN <<PushedCommit>> ELSE <<>>,
                         !.tree = IF state = "pushed" THEN PushedTree ELSE NoTree]

CatalogDisks ==
  {(GitRepositoryHome :> PlainDir(0, Mode755))
   @@ Entry(GroupDir, g)
   @@ RepoEntry(RepoP, IF g \in {"dir", "dir000", "linkdir"} THEN r ELSE "absent")
   @@ Entry(Join(<<GitRepositoryHome, Str_dev>>), d)
   @@ Entry(Join(<<GitRepositoryHome, Str_shellcommands>>), c) :
     g \in {"absent", "dir", "dir000", "file", "linkdir", "linkbroken"},
     r \in {"absent", "empty", "pushed"},
     d \in {"absent", "dir", "dir000"},
     c \in {"absent", "dir"}}

CatalogInit ==
  /\ fs \in CatalogDisks
  /\ nextId = 2
  /\ last = NoWrite
  /\ prev = Brief(NoWrite)
  /\ view = NoRead
  /\ wire = NoWire

\* the groups of the requests to /api/repositories
CatalogGroups == {<<>>, Str_git, Str_dev}

CatalogNext ==
  \/ Groups
  \/ \E group \in CatalogGroups : Repositories(group)

SpecCatalog == CatalogInit /\ [][CatalogNext]_vars

(***************************************************************************)
(* Claims about browsing, checked under SpecTree                           *)
(***************************************************************************)

\* the (group, name, sub-path) the latest directory request was decoded to
Browse == ParseDirectoryPath(view.arg)

BrowsedRepo == RepoPath(Browse.group, Browse.name)

\* the latest read is a directory request for an existing repository
BrowsesRepo ==
  /\ view.op = "directory"
  /\ Browse.err = ""
  /\ Exists(fs, BrowsedRepo)

\* where its sub-path resolves to
BrowsedDir == Abs(Join(<<BrowsedRepo, Browse.dir>>))

\* git ls-tree was run for the latest read
RanLsTree == \E i \in 1..Len(view.calls) : view.calls[i] = "ls-tree"

\* C6: a directory request whose sub-path resolves to a location outside
\* the repository root is rejected with PathEscape (400) and git ls-tree is
\* not run.
C6_EscapeRejected ==
  (BrowsesRepo /\ Browse.dir # <<>> /\ ~Under(BrowsedDir, BrowsedRepo)) =>
    /\ view.status = 400
    /\ view.err = "pathescape"
    /\ ~RanLsTree

(***************************************************************************)
(* Claims about the catalog, checked under SpecCatalog                     *)
(***************************************************************************)

\* C7: whenever the group list is answered with success it contains the
\* default group "git", whatever the state of /home/git/git on disk.
C7_DefaultGroupListed ==
  (view.op = "groups" /\ view.status = 200) =>
    \E i \in 1..Len(view.groups) : view.groups[i] = Str_git

(***************************************************************************)
(* Claims about listings, checked under SpecTree                           *)
(***************************************************************************)

\* the repository at path has no commits
ZeroCommits(path) == GitOpens(fs, path) /\ fs[path].commit = <<>>

\* the repository a details request resolves to
DetailedRepo == RepoPath(Resolved(view.arg).group, Resolved(view.arg).name)

\* the details of a repository without commits: no error, files = [] and no
\* lastCommit
DetailsOfZeroCommits ==
  (view.op = "details" /\ Exists(fs, DetailedRepo) /\ ZeroCommits(DetailedRepo)) =>
    /\ view.status = 200
    /\ view.files = <<>>
    /\ view.commit = <<>>

\* the root listing of a repository without commits: empty, no error, and
\* git ls-tree is not run
RootOfZeroCommits ==
  (BrowsesRepo /\ ZeroCommits(BrowsedRepo) /\ Browse.dir = <<>>) =>
    /\ view.status = 200
    /\ view.err = ""
    /\ view.files = <<>>
    /\ ~RanLsTree

C9_ListingsSorted ==
  (view.op \in {"directory", "details"} /\ view.status = 200) =>
    /\ \A i, j \in 1..Len(view.files) :
         i < j => ~(view.files[i].Type = "file" /\ view.files[j].Type = "dir")
    /\ \A i \in 1..(Len(view.files) - 1) :
         view.files[i].Type = view.files[i + 1].Type =>
           ~StrLess(ToLower(view.files[i + 1].Name), ToLower(view.files[i].Name))

\* a listing of a directory and two files that git ls-tree prints in
\* another order: "B" before "a" before "d"
C9_Witness ==
  /\ view.op = "directory"
  /\ view.status = 200
  /\ Len(view.files) = 3
  /\ view.files[1].Type = "dir" /\ view.files[1].Name = PoolNames[3]
  /\ view.files[2].Type = "file" /\ view.files[2].Name = PoolNames[1]
  /\ view.files[3].Type = "file" /\ view.files[3].Name = PoolNames[2]

(***************************************************************************)
(* The path codec: a browse request from the client's encoder             *)
(* (GuiltyUtils, src/unnamed/part_002) through net/http to the handler     *)
(***************************************************************************)

\* how long a group's repository name and sub-path of a request may be
MaxPartLen == 2

\* the bytes they are made of: "p", "/", "%", "."
CodecAlphabet == {112, Slash, Percent, Dot}

CodecParts == UNION {[1..k -> CodecAlphabet] : k \in 0..MaxPartLen}

\* the sub-paths of the requests: those, and "p/p", "p/p/p"
CodecSubs ==
  CodecParts \cup {<<112, Slash, 112>>, <<112, Slash, 112, Slash, 112>>}

\* the groups of the requests: "git", "%", "/", "p"
CodecGroups == {Str_git, <<Percent>>, <<Slash>>, Str_p}

\* "/api/directory/"
Str_apidirectory ==
  <<47, 97, 112, 105, 47, 100, 105, 114, 101, 99, 116, 111, 114, 121, 47>>

\* GuiltyUtils._getEncodedPath
getEncodedPath(groupName, repoName) ==
  encodeURIComponent(groupName) \o <<Slash>> \o encodeURIComponent(repoName)

\* GuiltyUtils.getApiDirectoryPath
getApiDirectoryPath(groupName, repoName, dirPath) ==
  LET basePath == Str_apidirectory \o getEncodedPath(groupName, repoName)
      parts == SplitOn(dirPath, Slash)
      urlPath == JoinWith([i \in 1..Len(parts) |-> encodeURIComponent(parts[i])],
                          <<Slash>>)
  IN IF dirPath = <<>> THEN basePath
     ELSE basePath \o <<Slash>> \o urlPath

\* the path ServeMux redirects to: path.Clean, a trailing "/" kept
cleanPath(p) ==
  IF p = <<>> THEN <<Slash>>
  ELSE LET np == Clean(IF p[1] = Slash THEN p ELSE <<Slash>> \o p)
       IN IF p[Len(p)] = Slash /\ np # <<Slash>> THEN np \o <<Slash>> ELSE np

\* a request on its way
Wire(stage, group, name, sub, raw, tail, out) ==
  [stage |-> stage, group |-> group, name |-> name, sub |-> sub, raw |-> raw,
   tail |-> tail, out |-> out]

CodecInit ==
  /\ fs = DiskWithRepo(<<PushedCommit>>, PushedTree)
  /\ nextId = 2
  /\ last = NoWrite
  /\ prev = Brief(NoWrite)
  /\ view = NoRead
  /\ wire = NoWire

\* the client asks for the directory sub of the repository group/name
Encode(group, name, sub) ==
  /\ wire.stage = "idle"
  /\ wire' = Wire("sent", group, name, sub,
                  getApiDirectoryPath(group, name, sub), <<>>, <<>>)
  /\ UNCHANGED <<fs, nextId, last, prev, view>>

\* net/http receives the request line: r.URL.Path is the unescaped path; a
\* path that is not clean is answered by ServeMux with a redirect, any
\* other goes to the handler registered for "/api/directory/"
Route ==
  /\ wire.stage = "sent"
  /\ LET u == PathUnescape(wire.raw)
     IN wire' = IF ~u.ok THEN [wire EXCEPT !.stage = "badrequest"]
                ELSE IF cleanPath(u.val) # u.val \/ ~HasPrefix(u.val, Str_apidirectory)
                THEN [wire EXCEPT !.stage = "redirected"]
                ELSE [wire EXCEPT !.stage = "routed",
                                  !.tail = SliceFrom(u.val, Len(Str_apidirectory))]
  /\ UNCHANGED <<fs, nextId, last, prev, view>>

\* directoryContentsHandler answers the request
Handle ==
  /\ wire.stage = "routed"
  /\ view' \in directoryContentsHandler(fs, wire.tail)
  /\ wire' = [wire EXCEPT !.stage = "done", !.out = ParseDirectoryPath(wire.tail)]
  /\ UNCHANGED <<fs, nextId, last, prev>>

CodecNext ==
  \/ \E group \in CodecGroups, name \in CodecParts, sub \in CodecSubs :
       Encode(group, name, sub)
  \/ Route
  \/ Handle

SpecCodec == CodecInit /\ [][CodecNext]_vars

\* C10: the handler decodes the path the client's encoder produced to
\* exactly the group, repository name and sub-path that were encoded.
C10_RoundTrip ==
  wire.stage = "done" =>
    /\ wire.out.err = ""
    /\ wire.out.group = wire.group
    /\ wire.out.name = wire.name
    /\ wire.out.dir = wire.sub

(***************************************************************************)
(* Reading files: the repository git/p with a commit drawn by Init, and    *)
(* the file and directory requests that read it                            *)
(***************************************************************************)

\* the commits of the repository: the entries "a" and "d" of the root, each
\* absent, a file or a directory
BlobTrees ==
  UNION {{TreeOf(root, nested) :
            nested \in [{n \in DOMAIN root : root[n] = "tree"} -> NestedContents]} :
         root \in [{PoolNames[1], PoolNames[3]} -> {"none", "blob", "tree"}]}

BlobInit ==
  /\ fs \in {DiskWithRepo(<<>>, NoTree)}
            \cup {DiskWithRepo(<<PushedCommit>>, t) : t \in BlobTrees}
  /\ nextId = 2
  /\ last = NoWrite
  /\ prev = Brief(NoWrite)
  /\ view = NoRead
  /\ wire = NoWire

\* the file paths of the file requests: "", "a", "d", "d/a", "d/B", "q",
\* "%2", "d%2Fa"
FilePaths ==
  {<<>>, PoolNames[1], PoolNames[3],
   PoolNames[3] \o <<Slash>> \o PoolNames[1],
   PoolNames[3] \o <<Slash>> \o PoolNames[2],
   Str_q, <<37, 50>>, PoolNames[3] \o Esc_slash \o PoolNames[1]}

\* the paths of the requests to /api/file/ and /api/directory/: "", "p",
\* "git/p", "git/q/a", and "git/p/<file path>"
BlobTails ==
  {<<>>, Str_p, Str_git \o <<Slash>> \o Str_p,
   Str_git \o <<Slash>> \o Str_q \o <<Slash>> \o PoolNames[1]}
  \cup {Str_git \o <<Slash>> \o Str_p \o <<Slash>> \o d : d \in FilePaths}

\* GET /api/file/<tail>
File(tail) ==
  /\ \E attr \in CheckAttrOutcomes : view' = fileContentsHandler(fs, tail, attr)
  /\ UNCHANGED <<fs, nextId, last, prev, wire>>

BlobNext ==
  \/ \E tail \in BlobTails : File(tail)
  \/ \E tail \in BlobTails : Directory(tail)

SpecBlob == BlobInit /\ [][BlobNext]_vars

(***************************************************************************)
(* Claims about the request paths and about reading files, checked under   *)
(* SpecBlob                                                                *)
(***************************************************************************)

\* the path of the latest request has no "/"
NoFirstSlash == Index(view.arg, Slash) < 0

\* what follows its first "/"
AfterFirstSlash == SliceFrom(view.arg, Index(view.arg, Slash) + 1)

\* it has one "/" only
NoSecondSlash == ~NoFirstSlash /\ Index(AfterFirstSlash, Slash) < 0

\* it has a second "/" and nothing after it
EmptyRemainder ==
  /\ ~NoFirstSlash
  /\ Index(AfterFirstSlash, Slash) >= 0
  /\ SliceFrom(AfterFirstSlash, Index(AfterFirstSlash, Slash) + 1) = <<>>

\* the latest request was rejected as malformed, without a subprocess and
\* with an answer that no disk changes: the same on an empty disk
RejectedAsMalformed ==
  /\ view.status = 400
  /\ view.err = "malformed"
  /\ view.calls = <<>>
  /\ view.op = "directory" => directoryContentsHandler(NoDisk, view.arg) = {view}
  /\ view.op = "file" =>
       \A attr \in CheckAttrOutcomes : fileContentsHandler(NoDisk, view.arg, attr) = view

CreateDisks ==
  {d \in CatalogDisks :
     /\ \A q \in DOMAIN d : d[q].kind = "dir" /\ d[q].mode = Mode755
     /\ Join(<<GitRepositoryHome, Str_shellcommands>>) \notin DOMAIN d}

CreateInit ==
  /\ fs \in CreateDisks
  /\ nextId = 2
  /\ last = NoWrite
  /\ prev = Brief(NoWrite)
  /\ view = NoRead
  /\ wire = NoWire

\* the names of the create requests: "", "p", "p/q", ".."
CreateNames == {<<>>, Str_p, Str_p \o <<Slash>> \o Str_q, Str_dotdot}

\* their groups: "" and "dev"
CreateGroups == {<<>>, Str_dev}

CreateNext ==
  \E name \in CreateNames, group \in CreateGroups : Create(name, group)

SpecCreate == CreateInit /\ [][CreateNext]_vars

\* the group a create request is for: "git" when it names none
GroupOrDefault(group) == IF group = <<>> THEN Str_git ELSE group

C13_InitFailureCleansUp ==
  \A name \in CreateNames, group \in CreateGroups, io \in CreateOutcomes :
    (io.mkdir /\ ~io.init /\ validateRepositoryName(fs, name, group) = "") =>
      LET r == repositoriesPost(fs, name, group, nextId, io)
      IN /\ r.resp.status = 500
         /\ r.resp.err = "init"
         /\ io.cleanup =>
              /\ ~Exists(r.fs, RepoPath(GroupOrDefault(group), name))
              /\ validateRepositoryName(r.fs, name, group) = ""

\* a create request that failed at git init and left nothing at the path
C13_Witness ==
  /\ last.op = "create"
  /\ last.status = 500
  /\ last.err = "init"
  /\ ~Exists(fs, last.path)
  /\ validateRepositoryName(fs, last.arg[1], last.arg[2]) = ""

(***************************************************************************)
(* Deleting: the outcomes of a delete request, step by step                *)
(***************************************************************************)

\* the step is a delete request that was decoded to a repository name
DeleteStep ==
  /\ last'.op = "delete"
  /\ last'.err # "escape"
  /\ prev' = Brief(last)
  /\ view' = NoRead

\* C14: a delete request for a repository whose active path does not exist
\* changes nothing on disk, a quarantine of that name included, and is
\* answered with a status that is neither the one of a malformed request
\* (400) nor the one of an internal failure (500).
C14_AbsentIsNotFound ==
  [][(DeleteStep /\ ~Exists(fs, last'.path)) =>
       /\ fs' = fs
       /\ last'.status \notin {400, 500}]_vars

\* the part of C14 about the disk: a delete request for a repository whose
\* active path does not exist changes nothing
AbsentLeavesDiskAlone ==
  [][(DeleteStep /\ ~Exists(fs, last'.path)) => fs' = fs]_vars

\* the step is a delete request for an existing repository whose quarantine
\* path is occupied
DeleteOntoOccupied ==
  /\ DeleteStep
  /\ Exists(fs, last'.path)
  /\ Exists(fs, Quarantine(last'.path))

C16_RevocationFailureIsSuccess ==
  [][(/\ DeleteStep
      /\ Exists(fs, last'.path)
      /\ Exists(fs', Quarantine(last'.path))
      /\ fs'[Quarantine(last'.path)].id = fs[last'.path].id
      /\ fs'[Quarantine(last'.path)].mode # Mode000) =>
       /\ last'.status = 200
       /\ ~last'.revoked
       /\ ~Exists(fs', last'.path)
       /\ fs'[Quarantine(last'.path)] = fs[last'.path]
       /\ \A r \in repositoryDetailsGet(fs', last'.arg) : r.status = 404]_vars

\* a delete answered with success whose revocation failed, and the details
\* request after it
C16_Witness ==
  /\ DeleteSucceeded
  /\ ~last.revoked
  /\ ~Exists(fs, last.path)
  /\ Exists(fs, Quarantine(last.path))
  /\ fs[Quarantine(last.path)].mode = Mode755
  /\ view.op = "details" /\ view.arg = last.arg /\ view.status = 404

(***************************************************************************)
(* Reading a file: the attribute check and the retrieval of the content    *)
(***************************************************************************)

\* the latest response is the one of a file request that ran a subprocess
FileWasRead == view.op = "file" /\ view.calls # <<>>

\* C17: a file request asks git check-attr before anything else.  A
\* response that says isBinary has empty content and was made without git
\* show; when check-attr fails the response is an error (500) that does not
\* say isBinary and git show was not run; and whenever check-attr reports
\* the attribute as set, the response says isBinary with empty content
\* after that one subprocess.
C17_BinaryCheckFirst ==
  /\ FileWasRead =>
       /\ view.calls[1] = "check-attr"
       /\ view.calls \in {<<"check-attr">>, <<"check-attr", "show">>}
       /\ view.isBinary =>
            /\ view.status = 200
            /\ view.content = <<>>
            /\ view.calls = <<"check-attr">>
       /\ view.err = "check-attr" =>
            /\ view.status = 500
            /\ ~view.isBinary
            /\ view.content = <<>>
            /\ view.calls = <<"check-attr">>
  /\ \A tail \in BlobTails :
       LET set == fileContentsHandler(fs, tail, "set")
           fail == fileContentsHandler(fs, tail, "fail")
       IN /\ (set.calls # <<>> /\ set.err = "") =>
               /\ set.isBinary
               /\ set.content = <<>>
               /\ set.calls = <<"check-attr">>
          /\ fail.calls # <<>> =>
               /\ fail.status = 500
               /\ fail.err = "check-attr"
               /\ ~fail.isBinary

\* a file of the head commit answered as binary
C17_Witness ==
  /\ FileWasRead
  /\ view.status = 200
  /\ view.isBinary
  /\ view.content = <<>>
  /\ view.calls = <<"check-attr">>
  /\ \E rec \in RecordAt(fs, RepoP, PoolNames[1]) : rec.kind = "blob"
  /\ view.arg = Str_git \o <<Slash>> \o Str_p \o <<Slash>> \o PoolNames[1]

(***************************************************************************)
(* The head commit: a repository whose head commit carries any author      *)
(* name and any subject, and the requests that report it                   *)
(***************************************************************************)

MaxTextLen == 2

\* the bytes of author names and subjects: "a", "|", " "
CommitAlphabet == {97, Bar, Space}

\* the texts git prints for %an and %s: no white space at either end
CommitTexts ==
  {t \in UNION {[1..k -> CommitAlphabet] : k \in 0..MaxTextLen} :
     t = <<>> \/ (~IsSpace(t[1]) /\ ~IsSpace(t[Len(t)]))}

\* the head commits: an author name is not empty
HeadCommits ==
  {[author |-> a, date |-> d, subject |-> s] :
     a \in CommitTexts \ {<<>>}, d \in {0, 5}, s \in CommitTexts}

CommitInit ==
  /\ fs \in {DiskWithRepo(<<c>>, PushedTree) : c \in HeadCommits}
  /\ nextId = 2
  /\ last = NoWrite
  /\ prev = Brief(NoWrite)
  /\ view = NoRead
  /\ wire = NoWire

CommitNext ==
  \/ \E tail \in RepositoryTails : Details(tail)
  \/ \E group \in GroupInputs : Repositories(group)

SpecCommit == CommitInit /\ [][CommitNext]_vars

\* the latest response is the details of git/p, which has commits
DetailsOfHead ==
  /\ view.op = "details"
  /\ view.status = 200
  /\ fs[RepoP].commit # <<>>

\* C18: the details of a repository with at least one commit carry a
\* lastCommit whose author, timestamp and message are those of the head
\* commit, whatever the author name and the subject are.
C18_LastCommitIsHead == DetailsOfHead => view.commit = fs[RepoP].commit

(***************************************************************************)
(* The order of a group's repositories: three repositories of the group    *)
(* "git", each absent, without commits, or with a head commit              *)
(***************************************************************************)

Str_r == <<114>>

\* the states of a repository: absent, without commits, or with a head
\* commit: an older one, a newer one, or the newest, whose subject
\* getLastCommit cannot split
OrderStates == {"absent", "empty", "older", "newer", "unsplit"}

OrderCommit(state) ==
  IF state = "older" THEN <<[author |-> <<97>>, date |-> 3, subject |-> <<115>>]>>
  ELSE IF state = "newer" THEN <<[author |-> <<97>>, date |-> 5, subject |-> <<115>>]>>
  ELSE IF state = "unsplit" THEN <<[author |-> <<97>>, date |-> 9, subject |-> <<Bar>>]>>
  ELSE <<>>

\* a repository of the group "git"
OrderRepo(name, state) ==
  IF state = "absent" THEN NoDisk
  ELSE RepoPath(Str_git, name) :>
         [GitInitBare((RepoPath(Str_git, name) :> PlainDir(1, Mode755)),
                      RepoPath(Str_git, name))[RepoPath(Str_git, name)]
            EXCEPT !.commit = OrderCommit(state),
                   !.tree = IF state = "empty" THEN NoTree ELSE PushedTree]

OrderDisks ==
  {(GitRepositoryHome :> PlainDir(0, Mode755))
   @@ (GroupDir :> PlainDir(0, Mode755))
   @@ OrderRepo(Str_p, sp) @@ OrderRepo(Str_q, sq) @@ OrderRepo(Str_r, sr) :
     sp \in OrderStates, sq \in OrderStates, sr \in OrderStates}

OrderInit ==
  /\ fs \in OrderDisks
  /\ nextId = 2
  /\ last = NoWrite
  /\ prev = Brief(NoWrite)
  /\ view = NoRead
  /\ wire = NoWire

OrderNext == \E group \in GroupInputs : Repositories(group)

SpecOrder == OrderInit /\ [][OrderNext]_vars

\* the latest response is a list of repositories
Listed == view.op = "repositories" /\ view.status = 200

\* C19: in a list of repositories no repository without lastCommit comes
\* before one with lastCommit, and of two repositories with lastCommit the
\* one that comes first has the later or the same commit time.
C19_NewestFirst ==
  Listed =>
    \A i, j \in 1..Len(view.repos) :
      i < j =>
        /\ view.repos[i].LastCommit = <<>> => view.repos[j].LastCommit = <<>>
        /\ (view.repos[i].LastCommit # <<>> /\ view.repos[j].LastCommit # <<>>) =>
             view.repos[i].LastCommit[1].date >= view.repos[j].LastCommit[1].date

\* three repositories listed against the order of their names: the newest
\* is "r", the one without commits is "p"
C19_Witness ==
  /\ Listed
  /\ Len(view.repos) = 3
  /\ view.repos[1].Name = Str_r /\ view.repos[1].LastCommit = OrderCommit("newer")
  /\ view.repos[2].Name = Str_q /\ view.repos[2].LastCommit = OrderCommit("older")
  /\ view.repos[3].Name = Str_p /\ view.repos[3].LastCommit = <<>>
  /\ fs[RepoPath(Str_git, Str_p)].commit = <<>>

(***************************************************************************)
(* The group list: a store root with entries of every kind, among them a   *)
(* name after "git" in the order, a reserved name and a name with a "."    *)
(***************************************************************************)

GroupDisks ==
  {(GitRepositoryHome :> PlainDir(0, Mode755))
   @@ Entry(GroupDir, g)
   @@ Entry(Join(<<GitRepositoryHome, Str_dev>>), d)
   @@ Entry(Join(<<GitRepositoryHome, Str_p>>), p)
   @@ Entry(Join(<<GitRepositoryHome, Str_shellcommands>>), c)
   @@ Entry(Join(<<GitRepositoryHome, Str_dotgit>>), h) :
     g \in {"absent", "dir", "dir000"},
     d \in {"absent", "dir", "dir000", "file", "linkdir", "linkbroken"},
     p \in {"absent", "dir", "linkdir"},
     c \in {"absent", "dir"},
     h \in {"absent", "dir"}}

GroupsInit ==
  /\ fs \in GroupDisks
  /\ nextId = 2
  /\ last = NoWrite
  /\ prev = Brief(NoWrite)
  /\ view = NoRead
  /\ wire = NoWire

GroupsNext == Groups

SpecGroups == GroupsInit /\ [][GroupsNext]_vars

\* the latest response is a list of groups
GroupsListed == view.op = "groups" /\ view.status = 200

\* C20: every name of a group list matches ^[a-zA-Z0-9_-]+$ and is not
\* git-shell-commands; the names are in ascending order; and every name
\* but "git" is an entry of the store root that is a directory, or a
\* symbolic link to one, with a read permission bit.
C20_GroupListFiltered ==
  GroupsListed =>
    /\ \A i \in 1..Len(view.groups) :
         /\ MatchesNamePattern(view.groups[i])
         /\ ~MatchesBlacklist(view.groups[i])
         /\ view.groups[i] # Str_git =>
              /\ Exists(fs, Join(<<GitRepositoryHome, view.groups[i]>>))
              /\ fs[Join(<<GitRepositoryHome, view.groups[i]>>)].kind
                   \in {"dir", "linkdir"}
              /\ BitAnd(fs[Join(<<GitRepositoryHome, view.groups[i]>>)].mode,
                        Mode444) # 0
    /\ \A i, j \in 1..Len(view.groups) :
         i < j => StrLess(view.groups[i], view.groups[j])

\* "dev", "git", "p" listed from a root without a "git" entry that holds
\* the reserved name, a name with a "." and a link for "dev"
C20_Witness ==
  /\ GroupsListed
  /\ view.groups = <<Str_dev, Str_git, Str_p>>
  /\ ~Exists(fs, GroupDir)
  /\ Exists(fs, Join(<<GitRepositoryHome, Str_shellcommands>>))
  /\ Exists(fs, Join(<<GitRepositoryHome, Str_dotgit>>))
  /\ fs[Join(<<GitRepositoryHome, Str_dev>>)].kind = "linkdir"

(***************************************************************************)
(* Directories that are no repositories                                    *)
(***************************************************************************)

\* the latest response is the details of a path that exists on disk and
\* holds no HEAD (the disk modelled here has no working-tree repositories)
DetailsOfPlainDirectory ==
  /\ view.op = "details"
  /\ Exists(fs, DetailedRepo)
  /\ ~fs[DetailedRepo].head

\* C21: a read request that resolves to a path which exists on disk and
\* holds neither .git nor HEAD is not answered as a repository: the details
\* of such a path are never a success with a listing.
C21_PlainDirectoryIsNoRepository == DetailsOfPlainDirectory => view.status # 200

(***************************************************************************)
(* A listing and a delete of the same repository at once: the details      *)
(* request takes its steps (os.Stat and the git subprocesses) one at a     *)
(* time, and a delete request may be served between any two of them        *)
(***************************************************************************)

\* the details request under way.  pre: the listings the repository had
\* when the request arrived; commit, lines, files: the locals lastCommit,
\* lines (those not yet looked at) and files of the handler
Listing(stage, arg, path, pre, commit, lines, files) ==
  [stage |-> stage, arg |-> arg, path |-> path, pre |-> pre,
   commit |-> commit, lines |-> lines, files |-> files]

RaceInit ==
  /\ fs \in {DiskWithRepo(<<PushedCommit>>, t) : t \in BlobTrees}
  /\ nextId = 2
  /\ last = NoWrite
  /\ prev = Brief(NoWrite)
  /\ view = NoRead
  /\ wire = NoWire

\* repositoryDetailsHandler: os.Stat(repoPath)
ListStat(tail) ==
  /\ wire.stage \in {"idle", "done"}
  /\ LET sp == splitRepositoryName(PathUnescape(tail).val)
         repoPath == Abs(Join(<<GitRepositoryHome, sp.group, sp.name>>) \o Str_dotgit)
     IN IF ~Exists(fs, repoPath)
        THEN /\ view' = ReadResp("details", tail, 404, "notfound",
                                 <<>>, <<>>, <<>>, <<>>, <<>>)
             /\ wire' = NoWire
        ELSE /\ view' = NoRead
             /\ wire' = Listing("log", tail, repoPath,
                                {r.files : r \in repositoryDetailsGet(fs, tail)},
                                <<>>, <<>>, <<>>)
  /\ UNCHANGED <<fs, nextId, last, prev>>

\* the response of the details request under way
ListDone(files) ==
  /\ view' = ReadResp("details", wire.arg, 200, "", files, <<>>, <<>>,
                      wire.commit, <<>>)
  /\ wire' = [wire EXCEPT !.stage = "done"]

\* repo.LastCommit = getLastCommit(repoPath)
ListLog ==
  /\ wire.stage = "log"
  /\ wire' = [wire EXCEPT !.stage = "rev-list",
                          !.commit = getLastCommit(fs, wire.path)]
  /\ UNCHANGED <<fs, nextId, last, prev, view>>

\* getRepositoryFiles: hasCommits(repoPath)
ListRevList ==
  /\ wire.stage = "rev-list"
  /\ IF hasCommits(fs, wire.path)
     THEN wire' = [wire EXCEPT !.stage = "ls-tree"] /\ UNCHANGED view
     ELSE ListDone(<<>>)
  /\ UNCHANGED <<fs, nextId, last, prev>>

\* getRepositoryFiles: git ls-tree HEAD
ListLsTree ==
  /\ wire.stage = "ls-tree"
  /\ LET r == GitLsTree(fs, wire.path, <<>>)
     IN IF r.ok
        THEN /\ wire' = [wire EXCEPT !.stage = "lines",
                                     !.lines = SplitOn(TrimSpace(r.out), Newline)]
             /\ UNCHANGED view
        ELSE ListDone(<<>>)
  /\ UNCHANGED <<fs, nextId, last, prev>>

\* getRepositoryFiles: one turn of the loop over the lines
ListLine ==
  /\ wire.stage = "lines"
  /\ wire.lines # <<>>
  /\ wire' = [wire EXCEPT !.lines = Tail(wire.lines),
                          !.files = wire.files
                                    \o ParseLsTree(fs, wire.path, <<>>,
                                                   <<wire.lines[1]>>)]
  /\ UNCHANGED <<fs, nextId, last, prev, view>>

\* getRepositoryFiles: sort.Slice, and the response
ListSort ==
  /\ wire.stage = "lines"
  /\ wire.lines = <<>>
  /\ \E s \in SortSlice(wire.files, FilesLess(wire.files)) : ListDone(s)
  /\ UNCHANGED <<fs, nextId, last, prev>>

RaceNext ==
  \/ \E tail \in RepositoryTails : ListStat(tail)
  \/ ListLog
  \/ ListRevList
  \/ ListLsTree
  \/ ListLine
  \/ ListSort
  \/ \E tail \in RepositoryTails : Delete(tail)

SpecRace == RaceInit /\ [][RaceNext]_vars

\* C22: a details request that is answered with success while delete
\* requests for the same repository are served carries a listing the
\* repository had when the request arrived.
C22_FailsOrStale ==
  (wire.stage = "done" /\ view.op = "details" /\ view.status = 200) =>
    view.files \in wire.pre

(***************************************************************************)
(* Nothing is remembered between requests                                  *)
(***************************************************************************)

\* the name of the repository the latest write request was for
WrittenName == TrimSuffix(Base(last.path), Str_dotgit)

\* the latest response is the list of the group of the latest write request
ListedAfterWrite ==
  /\ view.op = "repositories"
  /\ Join(<<GitRepositoryHome, GroupOrDefault(view.arg)>>) = Dir(last.path)

\* C23: the read request that follows a successful create finds the
\* repository: the list of its group is answered with success and holds it
\* with no lastCommit, and its details are answered with success and an
\* empty listing.  The list of the group that follows a successful delete
\* is answered with success and does not hold the repository's name.
C23_ReadsSeeTheLatestWrite ==
  /\ (last.op = "create" /\ last.status = 201 /\ ListedAfterWrite) =>
       /\ view.status = 200
       /\ \E i \in 1..Len(view.repos) :
            /\ view.repos[i].Name = WrittenName
            /\ view.repos[i].LastCommit = <<>>
  /\ (last.op = "create" /\ last.status = 201
      /\ view.op = "details" /\ DetailedRepo = last.path) =>
       /\ view.status = 200
       /\ view.files = <<>>
  /\ (DeleteSucceeded /\ ListedAfterWrite) =>
       /\ view.status = 200
       /\ \A i \in 1..Len(view.repos) : view.repos[i].Name # WrittenName

\* the list of the group right after a repository was created in it
C23_Witness ==
  /\ last.op = "create"
  /\ last.status = 201
  /\ ListedAfterWrite
  /\ view.status = 200
  /\ \E i \in 1..Len(view.repos) :
       /\ view.repos[i].Name = Str_p
       /\ view.repos[i].LastCommit = <<>>

(***************************************************************************)
(* File names with white space: commits of git/p whose root holds names    *)
(* with one space, with two in a row, and with a leading one               *)
(***************************************************************************)

\* "a", "b c", "b  c", " d"
SpacedNames ==
  {<<97>>, <<98, Space, 99>>, <<98, Space, Space, 99>>, <<Space, 100>>}

\* the commits: each name absent, a file or a directory; a directory holds
\* README.md alone
SpacedTrees ==
  {(<<>> :> Records(root))
   @@ [d \in {n \in SpacedNames : root[n] = "tree"} |-> PushedTree[<<>>]] :
     root \in [SpacedNames -> {"none", "blob", "tree"}]}

NamesInit ==
  /\ fs \in {DiskWithRepo(<<PushedCommit>>, t) : t \in SpacedTrees}
  /\ nextId = 2
  /\ last = NoWrite
  /\ prev = Brief(NoWrite)
  /\ view = NoRead
  /\ wire = NoWire

\* the requests for the root of git/p: "git/p" and "git/p/"
RootTails ==
  {Str_git \o <<Slash>> \o Str_p, Str_git \o <<Slash>> \o Str_p \o <<Slash>>}

NamesNext ==
  \/ \E tail \in RepositoryTails : Details(tail)
  \/ \E tail \in RootTails : Directory(tail)

SpecNames == NamesInit /\ [][NamesNext]_vars

\* the latest response is a listing of the root of git/p
RootListed ==
  /\ view.op \in {"details", "directory"}
  /\ view.status = 200

\* the Type of the entry made for a record
TypeOfKind(kind) == IF kind = "tree" THEN "dir" ELSE "file"

\* C24: a listing has one entry per record of the tree, whose name is the
\* record's name byte for byte, runs of white space included, and whose
\* type is "dir" for a tree record and "file" otherwise.
C24_NamesKept ==
  RootListed =>
    /\ Len(view.files) = Len(fs[RepoP].tree[<<>>])
    /\ \A k \in 1..Len(fs[RepoP].tree[<<>>]) :
         \E i \in 1..Len(view.files) :
           /\ view.files[i].Name = fs[RepoP].tree[<<>>][k].name
           /\ view.files[i].Type = TypeOfKind(fs[RepoP].tree[<<>>][k].kind)

(***************************************************************************)
(* Deleting: what a failed delete leaves                                   *)
(***************************************************************************)

\* C25: a delete request that is answered with an error leaves the disk as
\* it was: the active repository at its path, and a quarantine of that
\* name at the quarantine path with its content and its mode.
C25_FailedDeleteChangesNothing ==
  [][(DeleteStep /\ last'.status = 500) => fs' = fs]_vars

(***************************************************************************)
(* Two delete requests for git/p at once: net/http serves each request in  *)
(* a goroutine of its own, so the system calls of the two calls of         *)
(* deleteRepository interleave.  os.RemoveAll and os.Rename fail here only *)
(* for what is on the disk; the two os.Chmod, whose failure is logged and  *)
(* nothing more, may fail at will.                                         *)
(***************************************************************************)

Deleters == {"A", "B"}

\* an older quarantine of git/p: absent, with mode 0000, with mode 0755
OlderQuarantine(state) ==
  IF state = "absent" THEN NoDisk
  ELSE Quarantine(RepoP) :>
         [GitInitBare((RepoP :> PlainDir(0, IF state = "revoked" THEN Mode000
                                            ELSE Mode755)), RepoP)[RepoP]
            EXCEPT !.commit = <<PushedCommit>>, !.tree = PushedTree]

TwoDeletesInit ==
  /\ fs \in {disk @@ OlderQuarantine(q) :
               disk \in {DiskWithRepo(<<>>, NoTree),
                         DiskWithRepo(<<PushedCommit>>, PushedTree)},
               q \in {"absent", "revoked", "readable"}}
  /\ nextId = 2
  /\ last = NoWrite
  /\ prev = Brief(NoWrite)
  /\ view = NoRead
  /\ wire = [d \in Deleters |-> [pc |-> "stat", err |-> ""]]

\* the call d moves on to pc
Goes(d, pc) == wire' = [wire EXCEPT ![d].pc = pc]

\* the call d returns err ("" is nil)
Returns(d, err) == wire' = [wire EXCEPT ![d] = [pc |-> "returned", err |-> err]]

\* os.Stat(repoPath)
DelStat(d) ==
  /\ wire[d].pc = "stat"
  /\ IF Exists(fs, RepoP) THEN Goes(d, "stat-new") ELSE Returns(d, "notexist")
  /\ UNCHANGED <<fs, nextId, last, prev, view>>

\* os.Stat(newPath)
DelStatNew(d) ==
  /\ wire[d].pc = "stat-new"
  /\ IF Exists(fs, Quarantine(RepoP)) THEN Goes(d, "restore") ELSE Goes(d, "rename")
  /\ UNCHANGED <<fs, nextId, last, prev, view>>

\* os.Chmod(newPath, 0755)
DelRestore(d) ==
  /\ wire[d].pc = "restore"
  /\ \/ Exists(fs, Quarantine(RepoP)) /\ fs' = Chmod(fs, Quarantine(RepoP), Mode755)
     \/ fs' = fs
  /\ Goes(d, "remove")
  /\ UNCHANGED <<nextId, last, prev, view>>

\* os.RemoveAll(newPath)
DelRemove(d) ==
  /\ wire[d].pc = "remove"
  /\ fs' = RemoveAll(fs, Quarantine(RepoP))
  /\ Goes(d, "rename")
  /\ UNCHANGED <<nextId, last, prev, view>>

\* os.Rename(repoPath, newPath)
DelRename(d) ==
  /\ wire[d].pc = "rename"
  /\ IF CanRename(fs, RepoP, Quarantine(RepoP))
     THEN fs' = Rename(fs, RepoP, Quarantine(RepoP)) /\ Goes(d, "revoke")
     ELSE fs' = fs /\ Returns(d, "rename")
  /\ UNCHANGED <<nextId, last, prev, view>>

\* os.Chmod(newPath, 0000)
DelRevoke(d) ==
  /\ wire[d].pc = "revoke"
  /\ \/ Exists(fs, Quarantine(RepoP)) /\ fs' = Chmod(fs, Quarantine(RepoP), Mode000)
     \/ fs' = fs
  /\ Returns(d, "")
  /\ UNCHANGED <<nextId, last, prev, view>>

TwoDeletesNext ==
  \E d \in Deleters :
    \/ DelStat(d)
    \/ DelStatNew(d)
    \/ DelRestore(d)
    \/ DelRemove(d)
    \/ DelRename(d)
    \/ DelRevoke(d)

SpecTwoDeletes == TwoDeletesInit /\ [][TwoDeletesNext]_vars

\* both calls have returned
BothReturned == \A d \in Deleters : wire[d].pc = "returned"

\* C26: when both calls have returned, one of them has returned nil and the
\* other an error, and the repository that was active is at the quarantine
\* path.
C26_OneSucceedsContentKept ==
  BothReturned =>
    /\ \E d \in Deleters :
         /\ wire[d].err = ""
         /\ \A e \in Deleters \ {d} : wire[e].err # ""
    /\ Exists(fs, Quarantine(RepoP))
    /\ fs[Quarantine(RepoP)].id = 1

\* the part of C26 about the outcomes: one nil, one error
OneSucceeds ==
  BothReturned =>
    \E d \in Deleters :
      /\ wire[d].err = ""
      /\ \A e \in Deleters \ {d} : wire[e].err # ""

(***************************************************************************)
(* Two create requests for the name "p" at once: the validation, the       *)
(* os.MkdirAll, the git init --bare and the cleanup of the two requests    *)
(* interleave.  os.MkdirAll, git init and os.RemoveAll may fail at will.   *)
(***************************************************************************)

Creators == {"A", "B"}

TwoCreatesInit ==
  /\ fs \in {(GitRepositoryHome :> PlainDir(0, Mode755)),
             (GitRepositoryHome :> PlainDir(0, Mode755))
             @@ (GroupDir :> PlainDir(0, Mode755)),
             (GitRepositoryHome :> PlainDir(0, Mode755))
             @@ (GroupDir :> PlainDir(0, Mode755))
             @@ OlderQuarantine("revoked")}
  /\ nextId = 1
  /\ last = NoWrite
  /\ prev = Brief(NoWrite)
  /\ view = NoRead
  /\ wire = [c \in Creators |-> [pc |-> "validate", err |-> ""]]

\* repositoriesHandler: validateRepositoryName(req.Name, req.Group)
CrValidate(c) ==
  /\ wire[c].pc = "validate"
  /\ IF validateRepositoryName(fs, Str_p, <<>>) = ""
     THEN Goes(c, "mkdir")
     ELSE Returns(c, validateRepositoryName(fs, Str_p, <<>>))
  /\ UNCHANGED <<fs, nextId, last, prev, view>>

\* createRepository: os.MkdirAll(repoPath, 0755), which succeeds on a
\* directory that exists
CrMkdir(c) ==
  /\ wire[c].pc = "mkdir"
  /\ \/ /\ fs' = MkdirAll(fs, RepoP, nextId)
        /\ nextId' = IF Exists(fs, RepoP) THEN nextId ELSE nextId + 1
        /\ Goes(c, "init")
     \/ /\ UNCHANGED <<fs, nextId>>
        /\ Returns(c, "mkdir")
  /\ UNCHANGED <<last, prev, view>>

\* createRepository: git init --bare repoPath, which makes the directory
\* when it is missing and succeeds on a repository that exists
CrInit(c) ==
  /\ wire[c].pc = "init"
  /\ \/ /\ fs' = GitInitBare(MkdirAll(fs, RepoP, nextId), RepoP)
        /\ nextId' = IF Exists(fs, RepoP) THEN nextId ELSE nextId + 1
        /\ Returns(c, "")
     \/ /\ UNCHANGED <<fs, nextId>>
        /\ Goes(c, "cleanup")
  /\ UNCHANGED <<last, prev, view>>

\* createRepository: os.RemoveAll(repoPath), its error ignored, and the
\* return of the error of git init
CrCleanup(c) ==
  /\ wire[c].pc = "cleanup"
  /\ fs' \in {RemoveAll(fs, RepoP), fs}
  /\ Returns(c, "init")
  /\ UNCHANGED <<nextId, last, prev, view>>

TwoCreatesNext ==
  \E c \in Creators :
    \/ CrValidate(c)
    \/ CrMkdir(c)
    \/ CrInit(c)
    \/ CrCleanup(c)

SpecTwoCreates == TwoCreatesInit /\ [][TwoCreatesNext]_vars

\* the request c was answered 201
Created(c) == wire[c].pc = "returned" /\ wire[c].err = ""

\* C27: of two create requests for the same name at most one is answered
\* with success, and once both are answered, a repository that one of them
\* created is on disk whatever the failure of the other.
C27_AtMostOneCreates ==
  /\ ~(Created("A") /\ Created("B"))
  /\ (BothReturned /\ \E c \in Creators : Created(c)) =>
       (Exists(fs, RepoP) /\ fs[RepoP].head)

\* the first part of C27: at most one success
AtMostOneCreated == ~(Created("A") /\ Created("B"))

\* the second part of C27: a failed create removes nothing the other made
FailedCreateRemovesNothing ==
  (BothReturned /\ \E c \in Creators : Created(c)) =>
    (Exists(fs, RepoP) /\ fs[RepoP].head)

(***************************************************************************)
(* Requests that name a group outside the store: the group ".." in the     *)
(* body of a create request, and "%2E%2E%2Fp" in the path of the others    *)
(***************************************************************************)

\* the store root, and the directory it lies in
EscapeInit ==
  /\ fs = (Dir(GitRepositoryHome) :> PlainDir(0, Mode755))
          @@ (GitRepositoryHome :> PlainDir(0, Mode755))
  /\ nextId = 2
  /\ last = NoWrite
  /\ prev = Brief(NoWrite)
  /\ view = NoRead
  /\ wire = NoWire

\* the groups of the create requests: "" and ".."
EscapeGroups == {<<>>, Str_dotdot}

\* the paths of the others: "p" and "%2E%2E%2Fp"
EscapeTails == {Str_p, Esc_dotdot \o Esc_slash \o Str_p}

EscapeNext ==
  \/ \E group \in EscapeGroups : Create(Str_p, group)
  \/ \E tail \in EscapeTails : Delete(tail)
  \/ \E tail \in EscapeTails : Details(tail)

SpecEscape == EscapeInit /\ [][EscapeNext]_vars

\* path is <store-root>/<group> or lies below it, for a group that matches
\* ^[a-zA-Z0-9_-]+$
InStore(path) ==
  /\ HasPrefix(path, GitRepositoryHome \o <<Slash>>)
  /\ MatchesNamePattern(
       SplitOn(SliceFrom(path, Len(GitRepositoryHome) + 1), Slash)[1])

\* the paths a step creates, removes or alters
Touched ==
  {q \in DOMAIN fs \cup DOMAIN fs' :
     \/ q \notin DOMAIN fs
     \/ q \notin DOMAIN fs'
     \/ fs[q] # fs'[q]}

\* C28: whatever group and name a request carries, every path a step
\* creates, removes or alters lies under <store-root>/<group>/ for a group
\* that matches the pattern, and so does every repository path a details
\* request hands to git.
C28_StaysInStore ==
  [][/\ \A q \in Touched : InStore(q)
     /\ (view'.op = "details" /\ view'.calls # <<>>) =>
          InStore(RepoPath(Resolved(view'.arg).group, Resolved(view'.arg).name))]_vars

\* the part of C28 about the disk alone
MutationsStayInStore == [][\A q \in Touched : InStore(q)]_vars

(***************************************************************************)
(* The layouts of a group: directories with HEAD whose names end in .git   *)
(* and others whose names do not                                           *)
(***************************************************************************)

\* the group "git" with p.git and r.git (absent, without commits, pushed
\* to), with a bare repository named q, and with a quarantine of p
LayoutDisks ==
  {(GitRepositoryHome :> PlainDir(0, Mode755))
   @@ (GroupDir :> PlainDir(0, Mode755))
   @@ RepoEntry(RepoP, p)
   @@ RepoEntry(RepoPath(Str_git, Str_r), r)
   @@ RepoEntry(Join(<<GroupDir, Str_q>>), q)
   @@ OlderQuarantine(d) :
     p \in {"absent", "empty", "pushed"},
     r \in {"absent", "empty"},
     q \in {"absent", "empty"},
     d \in {"absent", "revoked", "readable"}}

LayoutInit ==
  /\ fs \in LayoutDisks
  /\ nextId = 2
  /\ last = NoWrite
  /\ prev = Brief(NoWrite)
  /\ view = NoRead
  /\ wire = NoWire

LayoutNext ==
  \/ \E group \in GroupInputs : Repositories(group)
  \/ \E tail \in RepositoryTails : Details(tail)

SpecLayout == LayoutInit /\ [][LayoutNext]_vars

\* the path of the details request for a listed repository: <group>/<name>
TailOf(repo) == repo.Group \o <<Slash>> \o repo.Name

\* C29: every repository of a list of repositories resolves: the details
\* request for its group and name, on the same disk, is not answered 404.
C29_ListedResolves ==
  Listed =>
    \A i \in 1..Len(view.repos) :
      \A r \in repositoryDetailsGet(fs, TailOf(view.repos[i])) : r.status # 404

(***************************************************************************)
(* The groups of the group list, listed                                    *)
(***************************************************************************)

\* C30: for every group of a group list, the list of its repositories on
\* the same disk is answered with success, also for "git" when there is no
\* directory of that name.
C30_ListedGroupsList ==
  GroupsListed =>
    \A i \in 1..Len(view.groups) :
      \A r \in repositoriesGet(fs, view.groups[i]) : r.status = 200
====
